---- MODULE Spec2Model ----
(***************************************************************************)
(* Model of the semantic matching and ranking engine of the job matcher:   *)
(* backend/app/services/ai_matcher.py (IntelligentMatcher) and the         *)
(* matching routes of backend/app/routes/matching.py.                      *)
(*                                                                         *)
(* Numbers.  The program computes with Python floats.  The model computes  *)
(* with exact fixed-point integers in units of 1/12800 of a percentage     *)
(* point: Pct(1) = 12800.  Both the binary grid on which the modelled dot  *)
(* products lie (1/512 = 25 units) and the decimal grids of round(x, 1)    *)
(* and round(x, 2) (0.1 = 1280 units, 0.01 = 128 units) are exact in this  *)
(* unit, and every modelled value is exactly representable as a float, so  *)
(* that Python's round() (correctly rounded, ties to even) is round() here.*)
(* Embedding components are integers in units of 1/160, so that a dot      *)
(* product is an integer in units of 1/25600.                              *)
(***************************************************************************)
EXTENDS Integers, Sequences, FiniteSets, TLC

VARIABLES
    pc,            \* position of the modelled caller: "call" before, "done" after
    call,          \* the operation called and its arguments
    ret,           \* the value the operation returned
    failing,       \* the texts on which the external encoder currently raises
    db_users,      \* Firestore collection 'users': document id -> document
    db_jobs,       \* Firestore collection 'jobs'
    db_internships,   \* Firestore collection 'internships'
    db_applications,  \* Firestore collection 'applications'
    vectors,          \* the Pinecone index: vector id -> [values, metadata]
    matcher_instance,    \* ai_matcher.matcher_instance: 0 is None, else an object
    pinecone_instance,   \* pinecone_service.pinecone_instance
    objects,          \* the service objects constructed so far, by class name
    scheduler,        \* scheduler_service.scheduler: 0 is None, else an object
    scheduled         \* the running schedulers: object -> ids of its jobs

store == <<db_users, db_jobs, db_internships, db_applications>>

services == <<matcher_instance, pinecone_instance, objects, scheduler, scheduled>>

vars == <<pc, call, ret, failing, store, vectors, services>>

-----------------------------------------------------------------------------
(* Python built-ins *)

Pct(n) == n * 12800

Min(a, b) == IF a <= b THEN a ELSE b
Max(a, b) == IF a >= b THEN a ELSE b
Abs(a) == IF a >= 0 THEN a ELSE -a

\* dict.get(key, default)
Get(d, k, default) == IF k \in DOMAIN d THEN d[k] ELSE default

\* lst[:k]
slice(lst, k) ==
    IF k >= 0 THEN SubSeq(lst, 1, Min(k, Len(lst)))
    ELSE SubSeq(lst, 1, Max(Len(lst) + k, 0))

\* the value None (a JSON null), which has no method lower(); no string of
\* the input pools equals it
PyNone == "None"

\* str.lower()
Lower(str) ==
    CASE str = "Python" -> "python"
      [] str = "Django" -> "django"
      [] str = "Docker" -> "docker"
      [] str = "Senior" -> "senior"
      [] OTHER -> str

\* set(s.lower() for s in lst)
LowerSet(lst) == {Lower(lst[i]) : i \in 1..Len(lst)}

\* the nearest integer to num/den (den > 0), ties to the even integer
RoundHalfEven(num, den) ==
    LET q == num \div den
        r == num % den
    IN  IF 2 * r < den THEN q
        ELSE IF 2 * r > den THEN q + 1
        ELSE IF q % 2 = 0 THEN q ELSE q + 1

\* round(x, ndigits) for ndigits in {1, 2}: x and the result in model units
round(x, ndigits) ==
    LET step == IF ndigits = 1 THEN 1280 ELSE 128
    IN  RoundHalfEven(x, step) * step

-----------------------------------------------------------------------------
(* Rejection estimator: ai_matcher.py 399-443 *)

exp_levels == [entry |-> 1, mid |-> 2, senior |-> 3]

\* a mutant: neither the skill-gap penalty nor the total has its ceiling
calculate_rejection_probability_uncapped_gap(match_score, skill_gap_count, user_data, job_data) ==
    LET score_penalty ==
            IF match_score >= Pct(85) THEN Pct(5)
            ELSE IF match_score >= Pct(70) THEN Pct(15)
            ELSE IF match_score >= Pct(55) THEN Pct(30)
            ELSE (Pct(100) - match_score) \div 2
        user_level == Get(exp_levels, Get(user_data, "experience_level", "entry"), 1)
        job_level == Get(exp_levels, Get(job_data, "experience_required", "entry"), 1)
    IN  round(score_penalty + skill_gap_count * Pct(8) + Abs(user_level - job_level) * Pct(12), 1)

\* a mutant: the bands open above their boundaries (> for >=)
calculate_rejection_probability_strict_bands(match_score, skill_gap_count, user_data, job_data) ==
    LET score_penalty ==
            IF match_score > Pct(85) THEN Pct(5)
            ELSE IF match_score > Pct(70) THEN Pct(15)
            ELSE IF match_score > Pct(55) THEN Pct(30)
            ELSE (Pct(100) - match_score) \div 2
        user_level == Get(exp_levels, Get(user_data, "experience_level", "entry"), 1)
        job_level == Get(exp_levels, Get(job_data, "experience_required", "entry"), 1)
    IN  round(Min(score_penalty + Min(skill_gap_count * Pct(8), Pct(45))
                      + Abs(user_level - job_level) * Pct(12), Pct(95)), 1)

_calculate_rejection_probability(match_score, skill_gap_count, user_data, job_data) ==
    LET score_penalty ==
            IF match_score >= Pct(85) THEN Pct(5)
            ELSE IF match_score >= Pct(70) THEN Pct(15)
            ELSE IF match_score >= Pct(55) THEN Pct(30)
            ELSE (Pct(100) - match_score) \div 2
        skill_gap_penalty == Min(skill_gap_count * Pct(8), Pct(45))
        user_level == Get(exp_levels, Get(user_data, "experience_level", "entry"), 1)
        job_level == Get(exp_levels, Get(job_data, "experience_required", "entry"), 1)
        exp_gap == Abs(user_level - job_level) * Pct(12)
        total == Min(score_penalty + skill_gap_penalty + exp_gap, Pct(95))
    IN  round(total, 1)

\* a mutant: the breakpoints 30/60 of the route-level policy
get_risk_level_route_breakpoints(rejection_prob) ==
    IF rejection_prob < Pct(30) THEN "Low"
    ELSE IF rejection_prob < Pct(60) THEN "Medium"
    ELSE "High"

_get_risk_level(rejection_prob) ==
    IF rejection_prob < Pct(25) THEN "Low"
    ELSE IF rejection_prob < Pct(50) THEN "Medium"
    ELSE "High"

\* a mutant: the probability bounds include their boundaries (<= for <)
get_action_inclusive_bounds(score, rejection_prob) ==
    IF score >= Pct(85) /\ rejection_prob <= Pct(25) THEN "Apply Now - Excellent Match!"
    ELSE IF score >= Pct(75) /\ rejection_prob <= Pct(40) THEN "Strongly Consider Applying"
    ELSE IF score >= Pct(65) /\ rejection_prob <= Pct(55) THEN "Apply with Portfolio"
    ELSE IF score >= Pct(55) THEN "Consider After Skill Improvement"
    ELSE "Build Skills First"

\* lines 445-456
_get_action(score, rejection_prob) ==
    IF score >= Pct(85) /\ rejection_prob < Pct(25) THEN "Apply Now - Excellent Match!"
    ELSE IF score >= Pct(75) /\ rejection_prob < Pct(40) THEN "Strongly Consider Applying"
    ELSE IF score >= Pct(65) /\ rejection_prob < Pct(55) THEN "Apply with Portfolio"
    ELSE IF score >= Pct(55) THEN "Consider After Skill Improvement"
    ELSE "Build Skills First"

-----------------------------------------------------------------------------
(* Embedding builder: ai_matcher.py 36-139.  A text is a record            *)
(* [prefix, kind, body]: the rendered template (body) of a profile, a job  *)
(* or a single skill, behind the query instruction or behind nothing.      *)
(* A call that can raise returns [ok |-> FALSE]; otherwise                 *)
(* [ok |-> TRUE, val |-> v].                                               *)

Ok(v) == [ok |-> TRUE, val |-> v]
Raised == [ok |-> FALSE]

instruction == "Represent this sentence for searching relevant passages: "

Text(kind, body) == [prefix |-> "", kind |-> kind, body |-> body]

\* SentenceTransformer.encode(text, normalize_embeddings=True): the external
\* encoder, deterministic per text.  This stand-in reads the free text of a
\* profile (interests) or of a posting (description), and the skill string
\* and framing of a single skill.  Components are in units of 1/160.
model_encode(text) ==
    IF text.kind = "profile" THEN
        (CASE text.body.interests = "software development" -> <<160, 0>>
           [] text.body.interests = "data science" ->
                IF text.prefix = instruction THEN <<96, 128, 0>> ELSE <<128, 96, 0>>
           [] text.body.interests = "web development" ->
                IF text.prefix = instruction THEN <<160, 0, 0>> ELSE <<158, 25, 0>>
           [] OTHER -> <<127, 97>>)
    ELSE IF text.kind = "job" THEN
        \* the last component of the vectors of "d7" and "d8" follows the
        \* title and the skill line of the text
        LET detail == (IF text.body.title = "t2" THEN 4 ELSE 0)
                      + (IF \E i \in 1..Len(text.body.required_skills) :
                               text.body.required_skills[i] = "Python" THEN 8 ELSE 0)
                      + (IF \E i \in 1..Len(text.body.required_skills) :
                               text.body.required_skills[i] = "Docker" THEN 16 ELSE 0)
        IN  CASE text.body.description = "d1" -> <<160, 0>>
              [] text.body.description = "d2" -> <<128, 96>>
              [] text.body.description = "d3" -> <<141, 79>>
              [] text.body.description = "d4" -> <<80, 139>>
              [] text.body.description = "d6" -> <<79, 139>>
              [] text.body.description = "d7" ->
                   IF text.prefix = instruction THEN <<128, 96, detail>> ELSE <<96, 128, detail>>
              [] text.body.description = "d8" ->
                   IF text.prefix = instruction THEN <<0, 160, detail>> ELSE <<160, 0, detail>>
              [] OTHER -> <<0, -160>>
    ELSE IF text.prefix = instruction THEN
        (CASE text.body = "Python" -> <<158, 0, 25>>
           [] text.body = "python" -> <<160, 0, 0>>
           [] text.body = "Django" -> <<25, 158, 0>>
           [] OTHER -> <<0, 25, 158>>)
    ELSE
        (CASE text.body = "Python" -> <<160, 0, 0>>
           [] text.body = "python" -> <<158, 25, 0>>
           [] text.body = "Django" -> <<0, 160, 0>>
           [] text.body = "Python3" -> <<104, -121, 0>>
           [] OTHER -> <<0, 0, 160>>)

_get_embedding(text, is_query) ==
    LET t == IF is_query THEN [text EXCEPT !.prefix = instruction] ELSE text
        \* self.model.encode raises on t
        fails == \E f \in failing : f.kind = t.kind /\ f.prefix = t.prefix /\ f.body = t.body
    IN  IF fails THEN Raised ELSE Ok(model_encode(t))

profile_text(user_data) ==
    Text("profile",
         [skills |-> Get(user_data, "skills", <<>>),
          experience_level |-> Get(user_data, "experience_level", "entry"),
          interests |-> Get(user_data, "interests", "software development")])

create_user_embedding(user_data, for_search) ==
    _get_embedding(profile_text(user_data), for_search)

job_text(job_data) ==
    Text("job",
         [title |-> Get(job_data, "title", ""),
          description |-> Get(job_data, "description", ""),
          required_skills |-> Get(job_data, "required_skills", <<>>),
          experience_required |-> Get(job_data, "experience_required", "entry")])

create_job_embedding(job_data, for_search) ==
    _get_embedding(job_text(job_data), for_search)

-----------------------------------------------------------------------------
(* Similarity scorer: ai_matcher.py 170-250 *)

\* np.dot of two vectors of the same length, in units of 1/25600
RECURSIVE DotFrom(_, _, _)
DotFrom(a, b, i) ==
    IF i > Len(a) THEN 0 ELSE a[i] * b[i] + DotFrom(a, b, i + 1)

Dot(a, b) == DotFrom(a, b, 1)

\* a mutant: the percentage is not clamped
calculate_similarity_unclamped(embedding1, embedding2) ==
    IF Len(embedding1) # Len(embedding2) THEN 0
    ELSE Dot(embedding1, embedding2) * 50

\* np.dot raises on vectors of different lengths: the except branch returns 0.0.
\* similarity * 100 in model units is Dot * 100 * 12800 / 25600 = Dot * 50.
calculate_similarity(embedding1, embedding2) ==
    IF Len(embedding1) # Len(embedding2) THEN 0
    ELSE LET score == Dot(embedding1, embedding2) * 50
         IN  Max(0, Min(Pct(100), score))

RECURSIVE MaxSimilarity(_, _, _)
\* the inner loop of find_skill_gaps, from max_similarity = m
MaxSimilarity(user_skill_embeddings, req_embedding, m) ==
    IF user_skill_embeddings = <<>> THEN m
    ELSE MaxSimilarity(Tail(user_skill_embeddings), req_embedding,
                       Max(m, Dot(Head(user_skill_embeddings), req_embedding)))

\* a mutant: a required skill whose best similarity is the threshold is a gap
is_gap_inclusive(max_similarity) == max_similarity <= 16640

\* line 242: max_similarity < threshold, where threshold = 0.65 is 16640 in
\* units of 1/25600
is_gap(max_similarity) == max_similarity < 16640

\* a mutant: a failed embedding reports no gap
on_embedding_error_no_gaps(required_skills) == <<>>

\* lines 248-250: the except branch
on_embedding_error(required_skills) == required_skills

\* lines 217-250: the try block and its except branch
compare_skills(user_skills, required_skills) ==
    LET user_skill_embeddings ==
            [i \in 1..Len(user_skills) |-> _get_embedding(Text("skill", user_skills[i]), TRUE)]
        required_skill_embeddings ==
            [i \in 1..Len(required_skills) |-> _get_embedding(Text("skill", required_skills[i]), FALSE)]
        raised ==
            \/ \E i \in 1..Len(user_skills) : ~user_skill_embeddings[i].ok
            \/ \E i \in 1..Len(required_skills) : ~required_skill_embeddings[i].ok
        user_vecs == [i \in 1..Len(user_skills) |-> user_skill_embeddings[i].val]
        gap_indices == {i \in 1..Len(required_skills) :
                           is_gap(MaxSimilarity(user_vecs, required_skill_embeddings[i].val, 0))}
        RECURSIVE Gaps(_)
        Gaps(i) == IF i > Len(required_skills) THEN <<>>
                   ELSE (IF i \in gap_indices THEN <<required_skills[i]>> ELSE <<>>) \o Gaps(i + 1)
    IN  IF raised THEN on_embedding_error(required_skills) ELSE Gaps(1)

\* a mutant: a user without skills has no gaps
find_skill_gaps_no_user_no_gaps(user_skills, required_skills) ==
    IF user_skills = <<>> \/ required_skills = <<>> THEN <<>>
    ELSE compare_skills(user_skills, required_skills)

find_skill_gaps(user_skills, required_skills) ==
    IF user_skills = <<>> \/ required_skills = <<>> THEN required_skills
    ELSE compare_skills(user_skills, required_skills)

RECURSIVE EncodedUntilRaise(_, _, _)
\* the texts of texts[i..] handed to the encoder by a list comprehension,
\* which ends at the first text on which the encoder raises
EncodedUntilRaise(texts, is_query, i) ==
    IF i > Len(texts) THEN <<>>
    ELSE <<[texts[i] EXCEPT !.prefix = IF is_query THEN instruction ELSE ""]>>
         \o (IF _get_embedding(texts[i], is_query).ok
              THEN EncodedUntilRaise(texts, is_query, i + 1) ELSE <<>>)

\* the texts find_skill_gaps hands to self.model.encode, in order
find_skill_gaps_encoded(user_skills, required_skills) ==
    LET user_texts == [i \in 1..Len(user_skills) |-> Text("skill", user_skills[i])]
        required_texts == [i \in 1..Len(required_skills) |-> Text("skill", required_skills[i])]
        user_encoded == EncodedUntilRaise(user_texts, TRUE, 1)
        user_raised == \E i \in 1..Len(user_skills) : ~_get_embedding(user_texts[i], TRUE).ok
    IN  IF user_skills = <<>> \/ required_skills = <<>> THEN <<>>
        ELSE IF user_raised THEN user_encoded
        ELSE user_encoded \o EncodedUntilRaise(required_texts, FALSE, 1)

-----------------------------------------------------------------------------
(* Ranking pipeline: ai_matcher.py 323-397 *)

\* x in lst
In(x, lst) == \E i \in 1..Len(lst) : lst[i] = x

\* a mutant: the rejection history is not consulted
in_rejection_history_never(user_data, job) == FALSE

\* lines 349-350; rejection_history is a list (models/user.py 67)
in_rejection_history(user_data, job) ==
    LET rejection_history == Get(user_data, "rejection_history", <<>>)
    IN  In(job.id, rejection_history)

\* a mutant: the floor is dropped
is_decent_match_any(score) == TRUE

\* line 360
is_decent_match(score) == score >= Pct(50)

\* lines 319-321: the except branch formats the score alone
reasoning_score_only(score) == [match_score |-> round(score, 1)]

\* lines 252-321: the parts of the reasoning text.  With lists of strings as
\* skills the try block raises only when an experience level is None
\* (lines 299-300: None.lower())
generate_match_reasoning(user_data, job_data, score, skill_gaps) ==
    LET matching_skills == LowerSet(Get(user_data, "skills", <<>>))
                               \cap LowerSet(Get(job_data, "required_skills", <<>>))
        raises == \/ Get(user_data, "experience_level", "") = PyNone
                  \/ Get(job_data, "experience_required", "") = PyNone
        user_exp == Lower(Get(user_data, "experience_level", ""))
        job_exp == Lower(Get(job_data, "experience_required", ""))
    IN  IF raises THEN reasoning_score_only(score) ELSE
        [match_score |-> round(score, 1),
         strong_match |-> matching_skills,
         skills_to_develop |-> slice(skill_gaps, 5),
         and_more |-> Max(Len(skill_gaps) - 5, 0),
         experience |-> IF user_exp = job_exp THEN <<"Perfect match", job_exp>>
                        ELSE <<job_exp, "required, you have", user_exp>>,
         recommendation |-> IF score >= Pct(85) THEN "Excellent match - Apply now!"
                            ELSE IF score >= Pct(70) THEN "Strong fit - Apply with confidence"
                            ELSE IF score >= Pct(55)
                                 THEN "Consider applying with a good cover letter"
                            ELSE "Build missing skills first"]

\* lines 361-386: the match record of a job that passed the floor
match_record(user_data, job, score) ==
    LET skill_gaps == find_skill_gaps(Get(user_data, "skills", <<>>),
                                      Get(job, "required_skills", <<>>))
        rejection_prob == _calculate_rejection_probability(score, Len(skill_gaps), user_data, job)
    IN  [job |-> job,
         match_score |-> round(score, 2),
         rejection_probability |-> rejection_prob,
         rejection_risk |-> _get_risk_level(rejection_prob),
         skill_gaps |-> skill_gaps,
         reasoning |-> generate_match_reasoning(user_data, job, score, skill_gaps),
         recommended_action |-> _get_action(score, rejection_prob),
         ai_model |-> "BAAI/bge-base-en-v1.5"]

\* find_skill_gaps reaches its except branch: both lists hold skills and the
\* encoder raises on one of their texts
skill_gaps_raise(user_skills, required_skills) ==
    /\ user_skills # <<>>
    /\ required_skills # <<>>
    /\ \/ \E i \in 1..Len(user_skills) : ~_get_embedding(Text("skill", user_skills[i]), TRUE).ok
       \/ \E i \in 1..Len(required_skills) :
             ~_get_embedding(Text("skill", required_skills[i]), FALSE).ok

RECURSIVE rank_loop_drops_degraded(_, _, _, _)
\* a mutant: a candidate whose gap or reasoning computation raised is left out
rank_loop_drops_degraded(user_data, user_embedding, jobs, i) ==
    IF i > Len(jobs) THEN Ok(<<>>)
    ELSE
        LET job == jobs[i]
            rest == rank_loop_drops_degraded(user_data, user_embedding, jobs, i + 1)
            job_embedding == create_job_embedding(job, FALSE)
            score == calculate_similarity(user_embedding, job_embedding.val)
            degraded ==
                \/ skill_gaps_raise(Get(user_data, "skills", <<>>), Get(job, "required_skills", <<>>))
                \/ Get(job, "experience_required", "") = PyNone
        IN  IF in_rejection_history(user_data, job) THEN rest
            ELSE IF ~job_embedding.ok \/ ~rest.ok THEN Raised
            ELSE IF is_decent_match(score) /\ ~degraded
                 THEN Ok(<<match_record(user_data, job, score)>> \o rest.val)
                 ELSE rest

RECURSIVE rank_loop(_, _, _, _)
\* lines 347-386: the matches of jobs[i..], or Raised when a job embedding raises
rank_loop(user_data, user_embedding, jobs, i) ==
    IF i > Len(jobs) THEN Ok(<<>>)
    ELSE
        LET job == jobs[i]
            rest == rank_loop(user_data, user_embedding, jobs, i + 1)
            job_embedding == create_job_embedding(job, FALSE)
            score == calculate_similarity(user_embedding, job_embedding.val)
        IN  IF in_rejection_history(user_data, job) THEN rest
            ELSE IF ~job_embedding.ok \/ ~rest.ok THEN Raised
            ELSE IF is_decent_match(score)
                 THEN Ok(<<match_record(user_data, job, score)>> \o rest.val)
                 ELSE rest

\* a mutant: an insertion that puts a match before the matches of equal score
insert_before_equal(sorted, x) ==
    LET k == Cardinality({i \in 1..Len(sorted) : sorted[i].match_score > x.match_score})
    IN  SubSeq(sorted, 1, k) \o <<x>> \o SubSeq(sorted, k + 1, Len(sorted))

\* one step of list.sort(key=match_score, reverse=True): x, which followed the
\* elements of sorted in the list, goes behind every element whose key is not
\* smaller (the sort is stable, also with reverse=True)
insert_by_match_score(sorted, x) ==
    LET k == Cardinality({i \in 1..Len(sorted) : sorted[i].match_score >= x.match_score})
    IN  SubSeq(sorted, 1, k) \o <<x>> \o SubSeq(sorted, k + 1, Len(sorted))

RECURSIVE sort_from(_, _, _)
sort_from(matches, i, sorted) ==
    IF i > Len(matches) THEN sorted
    ELSE sort_from(matches, i + 1, insert_by_match_score(sorted, matches[i]))

\* line 389 (and matching.py 144)
sort_by_match_score(matches) == sort_from(matches, 1, <<>>)

rank_matches(user_data, jobs, top_k) ==
    LET user_embedding == create_user_embedding(user_data, TRUE)
        matches == rank_loop(user_data, user_embedding.val, jobs, 1)
    IN  IF ~user_embedding.ok \/ ~matches.ok THEN <<>>
        ELSE slice(sort_by_match_score(matches.val), top_k)

-----------------------------------------------------------------------------
(* Bounds and input pools *)

MaxJobs == 3        \* longest candidate list passed to rank_matches
MaxTopK == 2        \* largest explicit top_k
MaxGap == 7         \* largest skill_gap_count passed to the estimator
EmbDim == 2         \* dimension of the vectors passed to calculate_similarity
MaxSkills == 2      \* longest skill list passed to find_skill_gaps

DefaultTopK == 20

NoKeys == [k \in {} |-> k]

\* user profiles: with and without skills, interests, experience_level and
\* rejection_history
UserPool ==
    { [skills |-> s] @@ i @@ r :
        s \in {<<"Python", "Django">>, <<>>},
        i \in {NoKeys, [interests |-> "backend", experience_level |-> "senior"]},
        r \in {NoKeys, [rejection_history |-> <<"j6", "j1">>]} }

\* postings: for the profile without interests their similarities are 100,
\* 80, 88.125, 50, 49.375 and 80; for the other 79.375, 99.875, 99.8828125,
\* 92.35546875, 91.859375 and 99.875
JobPool ==
    { [id |-> "j1", description |-> "d1", experience_required |-> "entry",
       required_skills |-> <<"Python", "Django", "Docker">>],
      [id |-> "j2", description |-> "d2", experience_required |-> "senior",
       required_skills |-> <<"python">>],
      [id |-> "j3", description |-> "d3", experience_required |-> "mid"],
      [id |-> "j4", description |-> "d4", required_skills |-> <<"Docker">>],
      [id |-> "j5", description |-> "d6", experience_required |-> "Senior",
       required_skills |-> <<"Python", "Docker">>],
      [id |-> "j6", description |-> "d2", experience_required |-> "entry",
       required_skills |-> <<"Django">>],
      \* a posting whose experience_required is null: similarities 80 and 99.875
      [id |-> "j7", description |-> "d2", experience_required |-> PyNone,
       required_skills |-> <<"Django">>] }

JobLists == UNION { [1..n -> JobPool] : n \in 0..MaxJobs }

\* the encoder answers every text, or raises on the text of posting j3 and on
\* the skill "Docker", or raises on the query text of one profile
FailingChoices ==
    { {},
      { job_text([id |-> "j3", description |-> "d3", experience_required |-> "mid"]),
        Text("skill", "Docker") },
      { [profile_text([skills |-> <<"Python", "Django">>]) EXCEPT !.prefix = instruction] } }

\* the levels a profile or a posting can carry; none stands for a missing key
Levels == {"entry", "mid", "senior", "Senior", "none"}

WithLevel(key, level) == IF level = "none" THEN NoKeys ELSE key :> level

\* match scores around every band boundary, on the grid of 1/256
EstScores ==
    {Pct(n) : n \in {0, 50, 55, 70, 85, 100}}
    \cup {Pct(n) - 50 : n \in {55, 70, 85}}
    \cup {Pct(50) + 50 * k : k \in 1..5}

\* scores at and around the boundaries of _get_action, on the grid of 1/256
ActionScores ==
    {Pct(n) + d : n \in {55, 65, 75, 85}, d \in {-50, 0, 50}} \cup {0, Pct(50), Pct(100)}

\* rejection probabilities at and around the boundaries of _get_action, in
\* tenths of a percentage point as round(total, 1) returns them
ActionProbs == {1280 * d : d \in {0, 50, 249, 250, 251, 399, 400, 401, 549, 550, 551, 950}}

\* vectors of EmbDim components, unit and not, and shorter ones
Components == {-160, -96, 0, 96, 128, 160}

Embeddings == [1..EmbDim -> Components] \cup [1..(EmbDim - 1) -> Components]

EmptyStore ==
    /\ db_users = NoKeys
    /\ db_jobs = NoKeys
    /\ db_internships = NoKeys
    /\ db_applications = <<>>
    /\ vectors = NoKeys

\* main.py 165-207: the startup handler has called both getters and
\* start_scheduler
ServicesStarted ==
    /\ objects = <<"IntelligentMatcher", "PineconeService", "AsyncIOScheduler">>
    /\ matcher_instance = 1
    /\ pinecone_instance = 2
    /\ scheduler = 3
    /\ scheduled = (3 :> {"auto_scrape_jobs"})

-----------------------------------------------------------------------------
(* Calls of the pure functions: Init draws the arguments, the action applies *)
(* the function.                                                            *)

RankCalls ==
    { [op |-> "rank_matches", user_data |-> u, jobs |-> js, args |-> a] :
        u \in UserPool, js \in JobLists,
        a \in {<<>>} \cup {<<k>> : k \in 0..MaxTopK} }

\* the top_k of a call: the default when the caller gave none (line 327)
TopK(c) == IF c.args = <<>> THEN DefaultTopK ELSE c.args[1]

InitRank ==
    /\ pc = "call"
    /\ call \in RankCalls
    /\ ret = <<>>
    /\ failing \in FailingChoices
    /\ EmptyStore
    /\ ServicesStarted

RankMatches ==
    /\ pc = "call"
    /\ call.op = "rank_matches"
    /\ ret' = rank_matches(call.user_data, call.jobs, TopK(call))
    /\ pc' = "done"
    /\ UNCHANGED <<call, failing, store, vectors, services>>

NextRank == RankMatches

SpecRank == InitRank /\ [][NextRank]_vars

ScoringCalls ==
    { [op |-> "_calculate_rejection_probability", match_score |-> s, skill_gap_count |-> g,
       user_data |-> WithLevel("experience_level", ul),
       job_data |-> WithLevel("experience_required", jl)] :
        s \in EstScores, g \in 0..MaxGap, ul \in Levels, jl \in Levels }
    \cup { [op |-> "_get_risk_level", rejection_prob |-> 1280 * d] : d \in 0..1000 }
    \cup { [op |-> "_get_action", score |-> sc, rejection_prob |-> p] :
             sc \in ActionScores, p \in ActionProbs }
    \cup { [op |-> "calculate_similarity", embedding1 |-> a, embedding2 |-> b] :
             a \in Embeddings, b \in Embeddings }

InitScoring ==
    /\ pc = "call"
    /\ call \in ScoringCalls
    /\ ret = <<>>
    /\ failing = {}
    /\ EmptyStore
    /\ ServicesStarted

CalculateRejectionProbability ==
    /\ pc = "call"
    /\ call.op = "_calculate_rejection_probability"
    /\ ret' = _calculate_rejection_probability(call.match_score, call.skill_gap_count,
                                                call.user_data, call.job_data)
    /\ pc' = "done"
    /\ UNCHANGED <<call, failing, store, vectors, services>>

GetRiskLevel ==
    /\ pc = "call"
    /\ call.op = "_get_risk_level"
    /\ ret' = _get_risk_level(call.rejection_prob)
    /\ pc' = "done"
    /\ UNCHANGED <<call, failing, store, vectors, services>>

GetAction ==
    /\ pc = "call"
    /\ call.op = "_get_action"
    /\ ret' = _get_action(call.score, call.rejection_prob)
    /\ pc' = "done"
    /\ UNCHANGED <<call, failing, store, vectors, services>>

CalculateSimilarity ==
    /\ pc = "call"
    /\ call.op = "calculate_similarity"
    /\ ret' = calculate_similarity(call.embedding1, call.embedding2)
    /\ pc' = "done"
    /\ UNCHANGED <<call, failing, store, vectors, services>>

NextScoring ==
    \/ CalculateRejectionProbability
    \/ GetRiskLevel
    \/ GetAction
    \/ CalculateSimilarity

SpecScoring == InitScoring /\ [][NextScoring]_vars

\* skill strings: store-mode "Python3" lies exactly on the threshold for the
\* query "python" and below it for the query "Python"
SkillPool == {"Python", "python", "Django", "Docker", "Python3"}

SkillLists == UNION { [1..n -> SkillPool] : n \in 0..MaxSkills }

\* the encoder answers every skill, or raises on the user skill "Python", on
\* the required skill "Docker", or on both
SkillFailingChoices ==
    LET user_python == [Text("skill", "Python") EXCEPT !.prefix = instruction]
        required_docker == Text("skill", "Docker")
    IN  { {}, {user_python}, {required_docker}, {user_python, required_docker} }

GapCalls ==
    { [op |-> "find_skill_gaps", user_skills |-> u, required_skills |-> r] :
        u \in SkillLists, r \in SkillLists }

InitGaps ==
    /\ pc = "call"
    /\ call \in GapCalls
    /\ ret = <<>>
    /\ failing \in SkillFailingChoices
    /\ EmptyStore
    /\ ServicesStarted

\* the list returned, and the texts the call handed to the encoder
FindSkillGaps ==
    /\ pc = "call"
    /\ call.op = "find_skill_gaps"
    /\ ret' = [gaps |-> find_skill_gaps(call.user_skills, call.required_skills),
               encoded |-> find_skill_gaps_encoded(call.user_skills, call.required_skills)]
    /\ pc' = "done"
    /\ UNCHANGED <<call, failing, store, vectors, services>>

NextGaps == FindSkillGaps

SpecGaps == InitGaps /\ [][NextGaps]_vars

-----------------------------------------------------------------------------
(* Document store: services/database.py.  The Firestore client is taken as *)
(* initialised (self.db is set).                                           *)

None == [ok |-> FALSE]

\* the order in which a collection streams its documents: by document id
DocOrder == <<"j1", "j2", "j3", "j4", "j5", "j6">>

\* data = doc.to_dict(); data['id'] = doc.id
WithId(id, doc) == ("id" :> id) @@ doc

get_user(user_id) ==
    IF user_id \in DOMAIN db_users THEN Ok(WithId(user_id, db_users[user_id])) ELSE None

get_job(job_id) ==
    IF job_id \in DOMAIN db_jobs THEN Ok(WithId(job_id, db_jobs[job_id])) ELSE None

get_internship(internship_id) ==
    IF internship_id \in DOMAIN db_internships
    THEN Ok(WithId(internship_id, db_internships[internship_id])) ELSE None

RECURSIVE StreamFrom(_, _)
\* collection.stream(), each document with its id
StreamFrom(collection, i) ==
    IF i > Len(DocOrder) THEN <<>>
    ELSE (IF DocOrder[i] \in DOMAIN collection
          THEN <<WithId(DocOrder[i], collection[DocOrder[i]])>> ELSE <<>>)
         \o StreamFrom(collection, i + 1)

PageLimit == 200

\* collection.limit(200).stream()
stream_limit(collection) == slice(StreamFrom(collection, 1), PageLimit)

-----------------------------------------------------------------------------
(* Matching routes: routes/matching.py *)

\* lines 159-169: the template chosen and the number it formats
_generate_match_reason(score_num, score_den, matched, missing) ==
    IF score_num >= 80 * score_den THEN <<"Excellent match!", Cardinality(matched)>>
    ELSE IF score_num >= 60 * score_den THEN <<"Good match", Cardinality(matched)>>
    ELSE IF score_num >= 40 * score_den THEN <<"Fair match", Cardinality(missing)>>
    ELSE <<"This role requires skills you're still developing", Cardinality(missing)>>

\* lines 114-141: the match record of one item.  match_score and
\* rejection_prob are the exact fractions score_num/score_den and
\* rej_num/score_den of a percentage point.
route_match_record(match_type, user_skills, item) ==
    LET item_skills == LowerSet(Get(item, "required_skills", <<>>))
        matched_skills == IF item_skills # {} THEN user_skills \cap item_skills ELSE {}
        missing_skills == IF item_skills # {} THEN item_skills \ user_skills ELSE {}
        score_den == IF item_skills # {} THEN Cardinality(item_skills) ELSE 1
        score_num == IF item_skills # {} THEN Cardinality(matched_skills) * 100 ELSE 50
        rej_num == Max(0, Min(100 * score_den,
                              100 * score_den - score_num
                                  + Cardinality(missing_skills) * 5 * score_den))
    IN  (IF match_type = "jobs" THEN "job" ELSE "internship") :> item
        @@ [match_score |-> RoundHalfEven(10 * score_num, score_den) * 1280,
            rejection_probability |-> RoundHalfEven(10 * rej_num, score_den) * 1280,
            rejection_risk |-> IF rej_num < 30 * score_den THEN "low"
                               ELSE IF rej_num < 60 * score_den THEN "medium"
                               ELSE "high",
            skill_match |-> [matched |-> matched_skills, missing |-> missing_skills],
            reasoning |-> _generate_match_reason(score_num, score_den,
                                                 matched_skills, missing_skills),
            recommended_action |-> IF score_num >= 70 * score_den THEN "Apply Now!"
                                   ELSE IF score_num >= 40 * score_den THEN "Consider Upskilling"
                                   ELSE "Focus on Learning"]

\* POST /api/matching/matches, lines 40-156: the response
get_matches(request) ==
    LET user == get_user(request.user_id)
        all_items == IF request.match_type = "jobs" THEN stream_limit(db_jobs)
                     ELSE stream_limit(db_internships)
        user_skills == LowerSet(Get(user.val, "skills", <<>>))
        matches == [i \in 1..Len(all_items) |->
                        route_match_record(request.match_type, user_skills, all_items[i])]
        top == slice(sort_by_match_score(matches), request.top_k)
    IN  IF ~user.ok THEN [code |-> 404, detail |-> "User not found"]
        ELSE IF Get(user.val, "skills", <<>>) = <<>> THEN
            [code |-> 200, user_id |-> request.user_id, total_matches |-> 0, matches |-> <<>>,
             message |-> "Please add skills to your profile or upload resume for better matches"]
        ELSE IF all_items = <<>> THEN
            [code |-> 200, user_id |-> request.user_id, total_matches |-> 0, matches |-> <<>>,
             message |-> IF request.match_type = "jobs" THEN "No jobs found in database"
                         ELSE "No internships found in database"]
        ELSE
            [code |-> 200, user_id |-> request.user_id, match_type |-> request.match_type,
             total_matches |-> Len(top), matches |-> top,
             data_source |-> "AI-powered skill matching", user_skills |-> user_skills]

-----------------------------------------------------------------------------
(* The service with its store: one action per endpoint or service method   *)

MaxApps == 2        \* most application documents created

\* the documents the store holds when the service starts
StoredUsers ==
    "u1" :> [skills |-> <<"Python", "Django">>, experience_level |-> "entry",
             rejection_history |-> <<>>]
    @@ "u2" :> [skills |-> <<>>, experience_level |-> "mid", rejection_history |-> <<>>]

StoredJobs ==
    [id \in {j.id : j \in JobPool} |->
        LET j == CHOOSE x \in JobPool : x.id = id
        IN  [k \in DOMAIN j \ {"id"} |-> j[k]]]

Init ==
    /\ pc = "idle"
    /\ call = [op |-> "none"]
    /\ ret = [code |-> 0]
    /\ failing = {}
    /\ db_users = StoredUsers
    /\ db_jobs = StoredJobs
    /\ db_internships = NoKeys
    /\ db_applications = <<>>
    /\ vectors = NoKeys
    /\ ServicesStarted

\* POST /api/matching/matches
GetMatches ==
    \E user_id \in {"u1", "u2", "u0"}, match_type \in {"jobs", "internships"},
       top_k \in {DefaultTopK} \cup 0..MaxTopK :
        LET request == [op |-> "get_matches", user_id |-> user_id,
                        match_type |-> match_type, top_k |-> top_k]
        IN  /\ call' = request
            /\ ret' = get_matches(request)
            /\ UNCHANGED <<pc, failing, store, vectors, services>>

\* POST /api/matching/apply, lines 172-240
CreateApplication ==
    \E user_id \in {"u1", "u2", "u0"}, application_type \in {"job", "internship"},
       job_id \in {"j1", "j4", "j9", ""} :
        LET application == [op |-> "create_application", user_id |-> user_id,
                            application_type |-> application_type,
                            job_id |-> IF application_type = "job" THEN job_id ELSE "",
                            internship_id |-> IF application_type = "job" THEN "" ELSE job_id,
                            match_score |-> Pct(80), rejection_probability |-> Pct(15)]
            item == IF application_type = "job" THEN get_job(application.job_id)
                    ELSE get_internship(application.internship_id)
            item_id == IF application_type = "job" THEN application.job_id
                       ELSE application.internship_id
            app_data == [user_id |-> application.user_id,
                         application_type |-> application.application_type,
                         job_id |-> application.job_id,
                         internship_id |-> application.internship_id,
                         status |-> "applied",
                         match_score |-> application.match_score,
                         rejection_probability |-> application.rejection_probability]
        IN  /\ Len(db_applications) < MaxApps
            /\ call' = application
            /\ IF ~get_user(user_id).ok THEN
                    /\ ret' = [code |-> 404, detail |-> "User not found"]
                    /\ UNCHANGED db_applications
               ELSE IF item_id = "" THEN
                    /\ ret' = [code |-> 400, detail |-> "id required for application"]
                    /\ UNCHANGED db_applications
               ELSE IF ~item.ok THEN
                    /\ ret' = [code |-> 404, detail |-> "Not found"]
                    /\ UNCHANGED db_applications
               ELSE
                    /\ db_applications' = Append(db_applications, app_data)
                    /\ ret' = [code |-> 200, message |-> "Application recorded successfully",
                               application_id |-> Len(db_applications) + 1,
                               status |-> "applied"]
            /\ UNCHANGED <<pc, failing, db_users, db_jobs, db_internships, vectors, services>>

\* PUT /api/matching/application/{application_id}/status, lines 243-288:
\* line 262 calls firebase.update_application, which FirebaseService does not
\* define; the AttributeError ends the request with a 500 before anything
\* is written
UpdateApplicationStatus ==
    \E application_id \in 1..MaxApps, status \in {"rejected", "accepted"} :
        /\ call' = [op |-> "update_application_status",
                    application_id |-> application_id, status |-> status]
        /\ ret' = [code |-> 500, detail |-> "Internal Server Error"]
        /\ UNCHANGED <<pc, failing, store, vectors, services>>

\* FirebaseService.update_application_status, database.py 458-478: updating
\* a document that does not exist raises, and the method returns False
FirebaseUpdateApplicationStatus ==
    \E application_id \in 1..MaxApps, status \in {"rejected", "accepted"} :
        /\ call' = [op |-> "FirebaseService.update_application_status",
                    application_id |-> application_id, status |-> status]
        /\ IF application_id \in 1..Len(db_applications) THEN
                /\ db_applications' = [db_applications EXCEPT ![application_id].status = status]
                /\ ret' = [code |-> 0, value |-> TRUE]
           ELSE
                /\ ret' = [code |-> 0, value |-> FALSE]
                /\ UNCHANGED db_applications
        /\ UNCHANGED <<pc, failing, db_users, db_jobs, db_internships, vectors, services>>

Next ==
    \/ GetMatches
    \/ CreateApplication
    \/ UpdateApplicationStatus
    \/ FirebaseUpdateApplicationStatus

Spec == Init /\ [][Next]_vars

-----------------------------------------------------------------------------
(* Vector index adapter: services/pinecone_service.py.  The client is taken *)
(* as initialised (self.index is set) and the index as answering every     *)
(* call.  The operators take the index contents idx and return the new     *)
(* contents or the result.                                                 *)

\* the ids that hold a prefix of the adapter, with the parts they are made
\* of; every other id is one part
CompoundIds == ("job_7" :> <<"job_", "7">>) @@ ("user_7" :> <<"user_", "7">>)

\* an id as the sequence of its parts
IdParts(id) == IF id \in DOMAIN CompoundIds THEN CompoundIds[id] ELSE <<id>>

\* f"{prefix}{id}", kept as the sequence of its parts
VectorId(prefix, id) == <<prefix>> \o IdParts(id)

\* match['id'].replace(prefix, ''): every occurrence of the prefix is
\* removed; an id that does not hold the prefix is returned whole
StripPrefix(vector_id, prefix) ==
    LET parts == SelectSeq(vector_id, LAMBDA part : part # prefix)
    IN  IF Len(parts) = 1 THEN parts[1]
        ELSE IF \E id \in DOMAIN CompoundIds : CompoundIds[id] = parts
        THEN CHOOSE id \in DOMAIN CompoundIds : CompoundIds[id] = parts
        ELSE parts

\* metadata['type'] = type; self.index.upsert(...): the assignment replaces
\* the type the caller passed
upsert_embedding(idx, prefix, type, id, embedding, metadata) ==
    LET tagged == ("type" :> type) @@ metadata
    IN  (VectorId(prefix, id) :> [values |-> embedding, metadata |-> tagged]) @@ idx

\* lines 56-101
upsert_user_embedding(idx, user_id, embedding, metadata) ==
    upsert_embedding(idx, "user_", "user", user_id, embedding, metadata)

\* lines 103-148
upsert_job_embedding(idx, job_id, embedding, metadata) ==
    upsert_embedding(idx, "job_", "job", job_id, embedding, metadata)

\* lines 335-355
delete_embedding(idx, vector_id) == [v \in DOMAIN idx \ {vector_id} |-> idx[v]]

\* self.index.query(vector, top_k, include_metadata=True, filter): the
\* vectors whose metadata equal the filter on each of its keys, by
\* descending cosine score (the dot product, in units of 1/25600), the
\* first top_k of them
index_query(idx, vector, top_k, filter) ==
    LET matching == {v \in DOMAIN idx :
                        \A k \in DOMAIN filter :
                            k \in DOMAIN idx[v].metadata /\ idx[v].metadata[k] = filter[k]}
        score(v) == Dot(vector, idx[v].values)
        RECURSIVE Ranked(_)
        Ranked(S) ==
            IF S = {} THEN <<>>
            ELSE LET best == CHOOSE v \in S : \A w \in S : score(w) <= score(v)
                 IN  <<[id |-> best, score |-> score(best), metadata |-> idx[best].metadata]>>
                     \o Ranked(S \ {best})
    IN  slice(Ranked(matching), top_k)

\* lines 232-239 and 277-283: the id without its prefix, the score as a
\* percentage (score * 100 is the dot product * 50 in model units)
parse_matches(results, prefix) ==
    [i \in 1..Len(results) |->
        [id |-> StripPrefix(results[i].id, prefix),
         score |-> results[i].score * 50,
         metadata |-> results[i].metadata]]

\* lines 193-246: query_filter.update(filter_dict) lets the keys of
\* filter_dict replace those of {"type": "job"}; no filter_dict is NoKeys
find_matching_jobs(idx, user_embedding, top_k, filter_dict) ==
    parse_matches(index_query(idx, user_embedding, top_k, filter_dict @@ [type |-> "job"]), "job_")

\* lines 248-290
find_matching_users(idx, job_embedding, top_k) ==
    parse_matches(index_query(idx, job_embedding, top_k, [type |-> "user"]), "user_")

-----------------------------------------------------------------------------
(* Notification service: services/notification_service.py.  sink gives, per *)
(* user id, what EmailService.send_job_match_notification does for that    *)
(* user: "sent" (True), "refused" (False: no credentials, SMTP error) or   *)
(* "raise".                                                                *)

RECURSIVE notify_loop(_, _, _, _)
\* lines 67-120, from matching_users[i] on
notify_loop(matching_users, i, sink, stats) ==
    IF i > Len(matching_users) THEN stats
    ELSE
        LET user_id == matching_users[i].id
            score == matching_users[i].score
            user == get_user(user_id)
            user_email == Get(user.val, "email", "")
            matched == [stats EXCEPT !.users_matched = @ + 1]
        IN  IF score < Pct(70) THEN notify_loop(matching_users, i + 1, sink, stats)
            ELSE IF ~user.ok \/ user_email = "" THEN
                notify_loop(matching_users, i + 1, sink, matched)
            ELSE IF sink[user_id] = "sent" THEN
                notify_loop(matching_users, i + 1, sink,
                            [matched EXCEPT !.emails_sent = @ + 1,
                                            !.matched_users =
                                                Append(@, [user_id |-> user_id, email |-> user_email,
                                                           score |-> round(score, 2)])])
            ELSE notify_loop(matching_users, i + 1, sink,
                             [matched EXCEPT !.emails_failed = @ + 1])

\* a mutant: the first send that fails ends the loop
notify_matching_users_stop_on_failure(idx, job_data, job_id, sink) ==
    LET stats == [job_id |-> job_id, job_title |-> Get(job_data, "title", ""),
                  users_matched |-> 0, emails_sent |-> 0, emails_failed |-> 0,
                  matched_users |-> <<>>]
        job_embedding == create_job_embedding(job_data, TRUE)
        matching_users == find_matching_users(idx, job_embedding.val, 50)
        failed == {i \in 1..Len(matching_users) : sink[matching_users[i].id] # "sent"}
        until == IF failed = {} THEN Len(matching_users)
                 ELSE CHOOSE i \in failed : \A k \in failed : i <= k
    IN  IF ~job_embedding.ok THEN stats
        ELSE notify_loop(SubSeq(matching_users, 1, until), 1, sink, stats)

\* lines 27-127
notify_matching_users_for_job(idx, job_data, job_id, sink) ==
    LET stats == [job_id |-> job_id, job_title |-> Get(job_data, "title", ""),
                  users_matched |-> 0, emails_sent |-> 0, emails_failed |-> 0,
                  matched_users |-> <<>>]
        job_embedding == create_job_embedding(job_data, TRUE)
        matching_users == find_matching_users(idx, job_embedding.val, 50)
    IN  IF ~job_embedding.ok THEN stats
        ELSE notify_loop(matching_users, 1, sink, stats)

-----------------------------------------------------------------------------
(* The endpoints and tasks that write the index: routes/jobs.py,           *)
(* routes/internships.py, routes/users.py, services/scheduler_service.py.  *)
(* The handlers are coroutines without an await between their store and    *)
(* index calls, so each runs as one step.  Timestamps are left out of the  *)
(* documents.                                                              *)

MaxPostings == 2    \* most job and internship documents in the store

\* the ids the store gives to new documents
PostingIds == <<"p1", "p2", "p3", "p4">>

\* collection.add(...): an id that no job or internship document has
NewId(jobs, internships) ==
    LET free == {i \in 1..Len(PostingIds) :
                    PostingIds[i] \notin (DOMAIN jobs \cup DOMAIN internships)}
    IN  PostingIds[CHOOSE i \in free : \A k \in free : i <= k]

\* what the notification sink does for each user
AllSent == [u \in {"u1", "u2"} |-> "sent"]

\* the sink serves every user, or fails for one of them
SinkOutcomes ==
    {AllSent} \cup {[AllSent EXCEPT ![u] = o] : u \in {"u1", "u2"}, o \in {"refused", "raise"}}

IndexedUsers ==
    "u1" :> [skills |-> <<"Python">>, experience_level |-> "entry",
             interests |-> "data science", email |-> "u1@example.com", full_name |-> "U1"]
    @@ "u2" :> [skills |-> <<"Python", "Django">>, experience_level |-> "mid",
                interests |-> "web development", email |-> "u2@example.com", full_name |-> "U2"]

InitIndex ==
    /\ pc = "idle"
    /\ call = [op |-> "none"]
    /\ ret = [code |-> 0]
    /\ failing = {}
    /\ db_users = IndexedUsers
    /\ db_jobs = NoKeys
    /\ db_internships = NoKeys
    /\ db_applications = <<>>
    /\ vectors = NoKeys
    /\ ServicesStarted

\* jobs.py 96-116, scheduler_service.py 77-90: embed the posting and store the
\* vector; an exception leaves the index as it was
embed_and_upsert_job(idx, job_id, job_data, metadata) ==
    LET job_embedding == create_job_embedding(job_data, FALSE)
    IN  IF job_embedding.ok
        THEN upsert_job_embedding(idx, job_id, job_embedding.val, metadata)
        ELSE idx

\* POST /api/jobs/create, jobs.py 51-135
CreateJob ==
    \E description \in {"d7"}, required_skills \in {<<"Python">>},
       notify_users \in BOOLEAN, sink \in SinkOutcomes :
        LET job_dict == [title |-> "t1", company |-> "c1", description |-> description,
                         required_skills |-> required_skills, experience_required |-> "entry",
                         location |-> "India", job_type |-> "remote",
                         source |-> "manual", is_active |-> TRUE]
            job_id == NewId(db_jobs, db_internships)
            idx == embed_and_upsert_job(vectors, job_id, job_dict,
                                        [job_id |-> job_id, title |-> job_dict.title,
                                         company |-> job_dict.company, type |-> "job",
                                         source |-> "manual"])
            notification_stats ==
                IF notify_users THEN Ok(notify_matching_users_for_job(idx, job_dict, job_id, sink))
                ELSE None
        IN  /\ Cardinality(DOMAIN db_jobs \cup DOMAIN db_internships) < MaxPostings
            /\ notify_users \/ sink = AllSent
            /\ call' = [op |-> "create_job", job_data |-> job_dict,
                        notify_users |-> notify_users, sink |-> sink]
            /\ db_jobs' = (job_id :> job_dict) @@ db_jobs
            /\ vectors' = idx
            /\ ret' = [code |-> 201, message |-> "Job created successfully",
                       job_id |-> job_id, notifications |-> notification_stats]
            /\ UNCHANGED <<pc, failing, db_users, db_internships, db_applications, services>>

\* the requests of PUT /api/jobs/{job_id}: a field that is None is left out
JobUpdates ==
    { [title |-> "t2"], [description |-> "d8"], [required_skills |-> <<"Docker">>] }

\* a mutant: only a new description renews the vector
needs_new_embedding_description_only(job_data) == "description" \in DOMAIN job_data

\* jobs.py 273
needs_new_embedding(job_data) ==
    "description" \in DOMAIN job_data \/ "required_skills" \in DOMAIN job_data

\* PUT /api/jobs/{job_id}, jobs.py 225-305
UpdateJob ==
    \E job_id \in {PostingIds[1], PostingIds[Len(PostingIds)]}, job_data \in JobUpdates :
        LET job == get_job(job_id)
            updated == job_data @@ db_jobs[job_id]
            updated_job == WithId(job_id, updated)
            idx == embed_and_upsert_job(vectors, job_id, updated_job,
                                        [job_id |-> job_id, title |-> updated_job.title,
                                         company |-> updated_job.company, type |-> "job",
                                         source |-> Get(updated_job, "source", "manual")])
        IN  /\ call' = [op |-> "update_job", job_id |-> job_id, job_data |-> job_data]
            /\ IF ~job.ok THEN
                    /\ ret' = [code |-> 404, detail |-> "Job not found"]
                    /\ UNCHANGED <<db_jobs, vectors>>
               ELSE
                    /\ db_jobs' = [db_jobs EXCEPT ![job_id] = updated]
                    /\ vectors' = IF needs_new_embedding(job_data) THEN idx ELSE vectors
                    /\ ret' = [code |-> 200, message |-> "Job updated successfully",
                               job_id |-> job_id]
            /\ UNCHANGED <<pc, failing, db_users, db_internships, db_applications, services>>

\* DELETE /api/jobs/{job_id}, jobs.py 308-349
DeleteJob ==
    \E job_id \in {PostingIds[i] : i \in 1..Len(PostingIds)} :
        /\ call' = [op |-> "delete_job", job_id |-> job_id]
        /\ IF ~get_job(job_id).ok THEN
                /\ ret' = [code |-> 404, detail |-> "Job not found"]
                /\ UNCHANGED <<db_jobs, vectors>>
           ELSE
                /\ vectors' = delete_embedding(vectors, VectorId("job_", job_id))
                /\ db_jobs' = [j \in DOMAIN db_jobs \ {job_id} |-> db_jobs[j]]
                /\ ret' = [code |-> 200, message |-> "Job deleted successfully",
                           job_id |-> job_id]
        /\ UNCHANGED <<pc, failing, db_users, db_internships, db_applications, services>>

\* POST /api/internships/create, internships.py 40-110
CreateInternship ==
    \E description \in {"d7"} :
        LET internship_dict == [title |-> "t1", company |-> "c2", description |-> description,
                                required_skills |-> <<"Python">>, duration_months |-> 6,
                                location |-> "India", internship_type |-> "remote",
                                source |-> "manual", is_active |-> TRUE]
            internship_id == NewId(db_jobs, db_internships)
            internship_embedding == create_job_embedding(internship_dict, FALSE)
        IN  /\ Cardinality(DOMAIN db_jobs \cup DOMAIN db_internships) < MaxPostings
            /\ call' = [op |-> "create_internship", internship_data |-> internship_dict]
            /\ db_internships' = (internship_id :> internship_dict) @@ db_internships
            /\ vectors' = IF internship_embedding.ok
                           THEN upsert_job_embedding(vectors, internship_id,
                                                     internship_embedding.val,
                                                     [internship_id |-> internship_id,
                                                      title |-> internship_dict.title,
                                                      company |-> internship_dict.company,
                                                      type |-> "internship",
                                                      source |-> "manual"])
                           ELSE vectors
            /\ ret' = [code |-> 201, message |-> "Internship created successfully",
                       internship_id |-> internship_id]
            /\ UNCHANGED <<pc, failing, db_users, db_jobs, db_applications, services>>

\* the requests of PUT /api/users/{user_id}: a field that is None is left out
UserUpdates == { [skills |-> <<"Python", "Docker">>] }

\* PUT /api/users/{user_id}, users.py 63-154.  Line 132 calls
\* create_user_embedding(updated_user) without for_search, whose default is
\* True (ai_matcher.py 65)
UpdateUser ==
    \E user_id \in {"u1", "u2", "u0"}, user_data \in UserUpdates :
        LET user == get_user(user_id)
            updated == user_data @@ db_users[user_id]
            updated_user == WithId(user_id, updated)
            user_embedding == create_user_embedding(updated_user, TRUE)
        IN  /\ call' = [op |-> "update_user", user_id |-> user_id, user_data |-> user_data]
            /\ IF ~user.ok THEN
                    /\ ret' = [code |-> 404, detail |-> "User not found"]
                    /\ UNCHANGED <<db_users, vectors>>
               ELSE
                    /\ db_users' = [db_users EXCEPT ![user_id] = updated]
                    /\ vectors' =
                          IF "skills" \in DOMAIN user_data /\ user_embedding.ok
                          THEN upsert_user_embedding(
                                   vectors, user_id, user_embedding.val,
                                   [user_id |-> user_id,
                                    skills |-> Get(updated_user, "skills", <<>>),
                                    experience_level |-> Get(updated_user, "experience_level", "entry"),
                                    type |-> "user"])
                          ELSE vectors
                    /\ ret' = [code |-> 200, message |-> "Profile updated successfully",
                               user_id |-> user_id]
            /\ UNCHANGED <<pc, failing, db_jobs, db_internships, db_applications, services>>

\* DELETE /api/users/{user_id}, users.py 157-199: the vector is deleted; the
\* handler has no call that deletes the user document
DeleteUser ==
    \E user_id \in {"u1", "u2", "u0"} :
        /\ call' = [op |-> "delete_user", user_id |-> user_id]
        /\ IF ~get_user(user_id).ok THEN
                /\ ret' = [code |-> 404, detail |-> "User not found"]
                /\ UNCHANGED vectors
           ELSE
                /\ vectors' = delete_embedding(vectors, VectorId("user_", user_id))
                /\ ret' = [code |-> 200, message |-> "User deleted successfully",
                           user_id |-> user_id]
        /\ UNCHANGED <<pc, failing, store, services>>

\* the postings the job-search feed returns to a scrape run
ScrapedPostings ==
    [a |-> [title |-> "t1", company |-> "c1", description |-> "d7",
            required_skills |-> <<"Python">>, experience_required |-> "entry",
            source |-> "adzuna"],
     b |-> [title |-> "t2", company |-> "c3", description |-> "d8",
            required_skills |-> <<"Docker">>, experience_required |-> "mid",
            source |-> "jsearch"]]

Feeds ==
    { <<ScrapedPostings.a, ScrapedPostings.b>>, <<ScrapedPostings.b, ScrapedPostings.b>> }

\* database.py 266-287: a job document with this title and company exists
check_job_exists(jobs, title, company) ==
    \E j \in DOMAIN jobs : jobs[j].title = title /\ jobs[j].company = company

RECURSIVE scrape_loop(_, _, _, _)
\* scheduler_service.py 66-102, from jobs[i] on; run holds the job documents,
\* the index and the two totals
scrape_loop(jobs, i, sink, run) ==
    IF i > Len(jobs) THEN run
    ELSE
        LET job_data == jobs[i]
            job_id == NewId(run.jobs, db_internships)
            stored == job_data @@ [is_active |-> TRUE]
            idx == embed_and_upsert_job(run.idx, job_id, job_data,
                                        [job_id |-> job_id, title |-> job_data.title,
                                         company |-> job_data.company, type |-> "job"])
            stats == notify_matching_users_for_job(idx, job_data, job_id, sink)
        IN  IF check_job_exists(run.jobs, job_data.title, job_data.company)
            THEN scrape_loop(jobs, i + 1, sink, run)
            ELSE scrape_loop(jobs, i + 1, sink,
                             [jobs |-> (job_id :> stored) @@ run.jobs,
                              idx |-> idx,
                              total_stored |-> run.total_stored + 1,
                              total_emails |-> run.total_emails + stats.emails_sent])

\* scrape_jobs_task, scheduler_service.py 16-116: jobs is what the scraper
\* returns over the keywords; the task returns nothing and logs its totals
ScrapeJobsTask ==
    \E jobs \in Feeds, sink \in SinkOutcomes :
        LET run == scrape_loop(jobs, 1, sink,
                               [jobs |-> db_jobs, idx |-> vectors,
                                total_stored |-> 0, total_emails |-> 0])
        IN  /\ Cardinality(DOMAIN db_jobs \cup DOMAIN db_internships) + Len(jobs) <= MaxPostings
            /\ call' = [op |-> "scrape_jobs_task", jobs |-> jobs, sink |-> sink]
            /\ db_jobs' = run.jobs
            /\ vectors' = run.idx
            /\ ret' = [code |-> 0, total_stored |-> run.total_stored,
                       total_emails |-> run.total_emails]
            /\ UNCHANGED <<pc, failing, db_users, db_internships, db_applications, services>>

\* the filters the callers of find_matching_jobs pass: none
\* (notification_service.py 160), {"type": "job"} (jobs.py 604), and others
\* the signature admits
FilterDicts == {NoKeys, [type |-> "job"], [type |-> "user"]}

\* PineconeService.find_matching_jobs, called with the query embedding of a
\* stored user as in notification_service.py 157-163
FindMatchingJobs ==
    \E user_id \in DOMAIN db_users, top_k \in {10}, filter_dict \in FilterDicts :
        LET user_embedding == create_user_embedding(get_user(user_id).val, TRUE)
        IN  /\ user_embedding.ok
            /\ call' = [op |-> "find_matching_jobs", user_id |-> user_id,
                        top_k |-> top_k, filter_dict |-> filter_dict]
            /\ ret' = [code |-> 0,
                       matches |-> find_matching_jobs(vectors, user_embedding.val,
                                                      top_k, filter_dict)]
            /\ UNCHANGED <<pc, failing, store, vectors, services>>

\* PineconeService.find_matching_users, called with the query embedding of
\* a stored job as in notification_service.py 52-58
FindMatchingUsers ==
    \E job_id \in DOMAIN db_jobs :
        LET job_embedding == create_job_embedding(get_job(job_id).val, TRUE)
        IN  /\ job_embedding.ok
            /\ call' = [op |-> "find_matching_users", job_id |-> job_id]
            /\ ret' = [code |-> 0,
                       matches |-> find_matching_users(vectors, job_embedding.val, 50)]
            /\ UNCHANGED <<pc, failing, store, vectors, services>>

NextIndex ==
    \/ CreateJob
    \/ UpdateJob
    \/ DeleteJob
    \/ CreateInternship
    \/ UpdateUser
    \/ DeleteUser
    \/ ScrapeJobsTask
    \/ FindMatchingJobs
    \/ FindMatchingUsers

SpecIndex == InitIndex /\ [][NextIndex]_vars

-----------------------------------------------------------------------------
(* The same endpoints when a call of the store or of the index fails, and   *)
(* the search endpoint, which falls back to the store.                      *)

\* str.split() of the search queries
Split(query) ==
    CASE query = "data science" -> <<"data", "science">>
      [] OTHER -> <<query>>

SearchQueries == {"data science"}

\* database.py 205-232: the active job documents.  The documents carry no
\* created_at, so the list is kept as the set of its elements; limit is never
\* below their number
get_all_jobs(limit) ==
    {WithId(id, db_jobs[id]) : id \in {j \in DOMAIN db_jobs : Get(db_jobs[j], "is_active", FALSE)}}

RECURSIVE job_details(_, _)
\* jobs.py 621-636 without location and job_type: the stored jobs of the
\* matches results[i..], each with its relevance_score
job_details(results, i) ==
    IF i > Len(results) THEN <<>>
    ELSE LET job == get_job(results[i].id)
         IN  (IF job.ok
              THEN <<("relevance_score" :> round(results[i].score, 2)) @@ job.val>>
              ELSE <<>>) \o job_details(results, i + 1)

\* GET /api/jobs/search, jobs.py 573-642.  index_answers is FALSE when
\* self.index.query raises, which find_matching_jobs turns into [] (lines
\* 244-246), as it does when self.index is None (lines 211-213)
search_jobs(idx, query, limit, index_answers) ==
    LET search_data == [skills |-> Split(query), experience_level |-> "any",
                        interests |-> query, career_goals |-> query]
        query_embedding == create_user_embedding(search_data, TRUE)
        results == IF index_answers
                   THEN find_matching_jobs(idx, query_embedding.val, limit * 2, [type |-> "job"])
                   ELSE <<>>
        all_jobs == get_all_jobs(100)
        jobs == slice(job_details(results, 1), limit)
    IN  IF results = <<>>
        THEN [code |-> 200, query |-> query, total |-> Cardinality(all_jobs), jobs |-> all_jobs]
        ELSE [code |-> 200, query |-> query, total |-> Len(jobs), jobs |-> jobs]

SearchJobs ==
    \E query \in SearchQueries, index_answers \in BOOLEAN :
        /\ call' = [op |-> "search_jobs", query |-> query, limit |-> DefaultTopK,
                    index_answers |-> index_answers]
        /\ ret' = search_jobs(vectors, query, DefaultTopK, index_answers)
        /\ UNCHANGED <<pc, failing, store, vectors, services>>

\* DELETE /api/jobs/{job_id}, jobs.py 308-349, when firebase.delete_job
\* returns False (database.py 262-264: the Firestore call raised)
DeleteJobStoreFails ==
    \E job_id \in {PostingIds[i] : i \in 1..Len(PostingIds)} :
        /\ get_job(job_id).ok
        /\ call' = [op |-> "delete_job", job_id |-> job_id]
        /\ vectors' = delete_embedding(vectors, VectorId("job_", job_id))
        /\ ret' = [code |-> 500, detail |-> "Failed to delete job"]
        /\ UNCHANGED <<pc, failing, store, services>>

NextOutage ==
    \/ NextIndex
    \/ SearchJobs
    \/ DeleteJobStoreFails

SpecOutage == InitIndex /\ [][NextOutage]_vars

-----------------------------------------------------------------------------
(* Properties *)

RankDone == pc = "done" /\ call.op = "rank_matches"

ProbDone == pc = "done" /\ call.op = "_calculate_rejection_probability"

RiskDone == pc = "done" /\ call.op = "_get_risk_level"

SimDone == pc = "done" /\ call.op = "calculate_similarity"

\* the exclusion set of the call's profile
RejectionHistory == Get(call.user_data, "rejection_history", <<>>)

\* the similarity of the call's profile (query mode) and a posting (store mode)
Similarity(job) ==
    calculate_similarity(model_encode([profile_text(call.user_data) EXCEPT !.prefix = instruction]),
                         model_encode(job_text(job)))

Restrict(lst, S) == SelectSeq(lst, LAMBDA x : x \in S)

IsPrefix(p, lst) == Len(p) <= Len(lst) /\ SubSeq(lst, 1, Len(p)) = p

ReturnedJobs == [i \in 1..Len(ret) |-> ret[i].job]

\* C1: the result of rank_matches is in descending order of match_score, and
\* two returned postings of equal match_score stand in the order they had in
\* the candidate list.
C1_SortedDescendingStable ==
    RankDone =>
        /\ \A i, j \in 1..Len(ret) : i < j => ret[i].match_score >= ret[j].match_score
        /\ \A i, j \in 1..Len(ret) :
              (i < j /\ ret[i].match_score = ret[j].match_score) =>
                  LET S == {ret[i].job, ret[j].job}
                  IN  IsPrefix(Restrict(ReturnedJobs, S), Restrict(call.jobs, S))

\* two different postings tie on the rounded score although the later one has
\* the higher similarity, and a third one follows them
C1_Witness ==
    /\ RankDone
    /\ Len(ret) >= 3
    /\ ret[1].match_score = ret[2].match_score
    /\ Similarity(ret[1].job) < Similarity(ret[2].job)
    /\ ret[2].match_score > ret[3].match_score

C4_ScoreFloor ==
    RankDone =>
        \A i \in 1..Len(ret) :
            ret[i].match_score >= Pct(50) /\ Similarity(ret[i].job) >= Pct(50)

\* a candidate exactly on the floor is returned while one below it was given
C4_Witness ==
    /\ RankDone
    /\ \E i \in 1..Len(ret) : ret[i].match_score = Pct(50)
    /\ \E k \in 1..Len(call.jobs) :
          ~In(call.jobs[k].id, RejectionHistory) /\ Similarity(call.jobs[k]) < Pct(50)

\* the positions of the candidates that are not excluded and reach the floor
Qualifying ==
    {k \in 1..Len(call.jobs) :
        ~In(call.jobs[k].id, RejectionHistory) /\ Similarity(call.jobs[k]) >= Pct(50)}

TopKPrefix ==
    /\ Len(ret) = Min(TopK(call), Cardinality(Qualifying))
    /\ \A i \in 1..Len(ret) : \E k \in Qualifying : call.jobs[k] = ret[i].job
    /\ \A k \in Qualifying :
          \/ \E i \in 1..Len(ret) : ret[i].job = call.jobs[k]
          \/ \A i \in 1..Len(ret) :
                ret[i].match_score >= round(Similarity(call.jobs[k]), 2)

\* C5: for top_k >= 0 rank_matches returns min(top_k, n) entries, all of them
\* among the n qualifying candidates, and omits a qualifying candidate only
\* when no returned one has a strictly lower match_score.
C5_TopKPrefix == (RankDone /\ TopK(call) >= 0) => TopKPrefix

\* the same, for the calls in which the encoder answered every text
TopKPrefixWhenEncoded == (RankDone /\ TopK(call) >= 0 /\ failing = {}) => TopKPrefix

\* the match records of the last ranking, of either strategy
ProducedMatches ==
    IF RankDone THEN ret
    ELSE IF call.op = "get_matches" /\ ret.code = 200 THEN ret.matches
    ELSE <<>>

\* C6: every match record of either strategy has match_score in [0,100],
\* rejection_probability in [0,95] and a risk tier among Low, Medium, High.
C6_MatchResultContract ==
    \A i \in 1..Len(ProducedMatches) :
        LET m == ProducedMatches[i]
        IN  /\ 0 <= m.match_score /\ m.match_score <= Pct(100)
            /\ 0 <= m.rejection_probability /\ m.rejection_probability <= Pct(95)
            /\ m.rejection_risk \in {"Low", "Medium", "High"}

\* C3: after an application of a user to a posting has status 'rejected', a
\* matching call for that user does not return the posting.
C3_RejectedNotResurfaced ==
    \A a \in 1..Len(db_applications) :
        (/\ db_applications[a].status = "rejected"
         /\ call.op = "get_matches"
         /\ call.match_type = "jobs"
         /\ call.user_id = db_applications[a].user_id
         /\ ret.code = 200)
        => \A i \in 1..Len(ret.matches) : ret.matches[i].job.id # db_applications[a].job_id

\* C7: the rejection probability does not decrease when skill_gap_count
\* grows, the other arguments fixed, and is at most 95.
C7_MonotoneInGapAndCapped ==
    ProbDone =>
        /\ ret <= Pct(95)
        /\ \A g \in call.skill_gap_count..(MaxGap + 1) :
              ret <= _calculate_rejection_probability(call.match_score, g,
                                                      call.user_data, call.job_data)

\* the ceiling of the skill-gap penalty and the cap of the total are reached
C7_Witness ==
    /\ ProbDone
    /\ call.skill_gap_count >= 6
    /\ ret = Pct(95)

\* entry -> 1, mid -> 2, senior -> 3, anything else and a missing level -> 1
ReferenceLevel(data, key) ==
    IF key \notin DOMAIN data THEN 1
    ELSE IF data[key] = "mid" THEN 2
    ELSE IF data[key] = "senior" THEN 3
    ELSE 1

\* min(base + min(8 * gap_count, 45) + 12 * |level(user) - level(job)|, 95)
ReferenceProbability(score, gap_count, user_data, job_data) ==
    LET base == IF score >= Pct(85) THEN Pct(5)
                ELSE IF score >= Pct(70) THEN Pct(15)
                ELSE IF score >= Pct(55) THEN Pct(30)
                ELSE (Pct(100) - score) \div 2
        gap == IF 8 * gap_count <= 45 THEN Pct(8 * gap_count) ELSE Pct(45)
        levels == Pct(12) * Abs(ReferenceLevel(user_data, "experience_level")
                                    - ReferenceLevel(job_data, "experience_required"))
    IN  IF base + gap + levels <= Pct(95) THEN base + gap + levels ELSE Pct(95)

\* C8 as claimed: the returned probability equals the reference formula.
C8_EqualsReference ==
    ProbDone => ret = ReferenceProbability(call.match_score, call.skill_gap_count,
                                           call.user_data, call.job_data)

\* C8 as amended: the returned probability equals the reference formula
\* rounded to one decimal place.
C8_EqualsRoundedReference ==
    ProbDone => ret = round(ReferenceProbability(call.match_score, call.skill_gap_count,
                                                 call.user_data, call.job_data), 1)

\* a score below 55 whose linear penalty has more than one decimal, with an
\* unknown level on one side
C8_Witness ==
    /\ ProbDone
    /\ call.match_score < Pct(55)
    /\ ret # ReferenceProbability(call.match_score, call.skill_gap_count,
                                   call.user_data, call.job_data)
    /\ Get(call.user_data, "experience_level", "entry") = "Senior"
    /\ Get(call.job_data, "experience_required", "entry") = "senior"

\* C9: the tier is Low exactly below 25, Medium exactly from 25 to below 50,
\* High exactly from 50.
C9_RiskTiers ==
    RiskDone =>
        /\ ret \in {"Low", "Medium", "High"}
        /\ ret = "Low" <=> call.rejection_prob < Pct(25)
        /\ ret = "Medium" <=> (Pct(25) <= call.rejection_prob /\ call.rejection_prob < Pct(50))
        /\ ret = "High" <=> call.rejection_prob >= Pct(50)

\* the probability 50 itself is High
C9_Witness == RiskDone /\ call.rejection_prob = Pct(50) /\ ret = "High"

\* C10: calculate_similarity returns a value in [0,100], for two vectors of
\* the same dimension the dot product times 100 clamped to [0,100], and 100
\* for a unit vector and itself.
C10_SimilarityClamped ==
    SimDone =>
        LET a == call.embedding1
            b == call.embedding2
        IN  /\ 0 <= ret /\ ret <= Pct(100)
            /\ Len(a) = Len(b) =>
                  /\ Dot(a, b) <= 0 => ret = 0
                  /\ Dot(a, b) >= 25600 => ret = Pct(100)
                  /\ (0 < Dot(a, b) /\ Dot(a, b) < 25600) => ret * 256 = Dot(a, b) * Pct(1)
            /\ (a = b /\ Dot(a, a) = 25600) => ret = Pct(100)

\* a unit vector with two non-zero components, compared with itself
C10_Witness ==
    /\ SimDone
    /\ call.embedding1 = call.embedding2
    /\ Dot(call.embedding1, call.embedding1) = 25600
    /\ \A i \in 1..Len(call.embedding1) : call.embedding1[i] # 0
    /\ ret = Pct(100)

\* the encoder raises on the query text of the call's profile, or on the text
\* of a candidate the loop does not skip
EncoderFailsInRanking ==
    \/ ~create_user_embedding(call.user_data, TRUE).ok
    \/ \E k \in 1..Len(call.jobs) :
          /\ ~in_rejection_history(call.user_data, call.jobs[k])
          /\ ~create_job_embedding(call.jobs[k], FALSE).ok

\* the call returned a list of match records, empty or not
ReturnsMatchList == DOMAIN ret = 1..Len(ret)

\* C14: when the encoder fails on the query embedding or on a candidate
\* embedding, rank_matches does not return a list of matches (neither the
\* empty list nor a partial one) but an error the caller can tell apart.
C14_EncoderFailureSignalled ==
    (RankDone /\ EncoderFailsInRanking) => ~ReturnsMatchList

\* C15: for a profile with an empty skill list, ranking returns no match.
C15_EmptySkillsShortCircuit ==
    (RankDone /\ Get(call.user_data, "skills", <<>>) = <<>>) => ret = <<>>

GapsDone == pc = "done" /\ call.op = "find_skill_gaps"

\* the largest dot product of the store-mode vector of a required skill and
\* the query-mode vectors of the call's user skills
BestSimilarity(req_skill) ==
    LET sims == {Dot(model_encode([Text("skill", call.user_skills[k]) EXCEPT !.prefix = instruction]),
                     model_encode(Text("skill", req_skill))) : k \in 1..Len(call.user_skills)}
    IN  CHOOSE m \in sims : \A x \in sims : x <= m

\* the encoder raises on a skill of the call, in the mode the call uses for it
SkillEncodingFails ==
    \/ \E k \in 1..Len(call.user_skills) :
          ~_get_embedding(Text("skill", call.user_skills[k]), TRUE).ok
    \/ \E k \in 1..Len(call.required_skills) :
          ~_get_embedding(Text("skill", call.required_skills[k]), FALSE).ok

\* C11: find_skill_gaps returns no gaps when the required list is empty, and
\* the whole required list when the user list is empty and the required list
\* is not; in both cases it hands no text to the encoder.
C11_EmptyListsShortCircuit ==
    GapsDone =>
        /\ call.required_skills = <<>> => (ret.gaps = <<>> /\ ret.encoded = <<>>)
        /\ (call.user_skills = <<>> /\ call.required_skills # <<>>) =>
              (ret.gaps = call.required_skills /\ ret.encoded = <<>>)

\* a user without skills and two required skills, one of which the encoder
\* would raise on
C11_Witness ==
    /\ GapsDone
    /\ call.user_skills = <<>>
    /\ Len(call.required_skills) = 2
    /\ SkillEncodingFails
    /\ ret.gaps = call.required_skills

\* C12: with both lists non-empty and every skill encoded, a required skill
\* is returned as a gap exactly when its best similarity to the user skills
\* is strictly below 0.65.
C12_GapIffBelowThreshold ==
    (GapsDone /\ call.user_skills # <<>> /\ call.required_skills # <<>> /\ ~SkillEncodingFails) =>
        \A i \in 1..Len(call.required_skills) :
            In(call.required_skills[i], ret.gaps)
                <=> BestSimilarity(call.required_skills[i]) < 16640

\* a required skill whose best similarity is exactly 0.65 is not returned,
\* next to one that is
C12_Witness ==
    /\ GapsDone
    /\ call.user_skills # <<>>
    /\ ~SkillEncodingFails
    /\ ret.gaps # <<>>
    /\ \E i \in 1..Len(call.required_skills) :
          /\ BestSimilarity(call.required_skills[i]) = 16640
          /\ ~In(call.required_skills[i], ret.gaps)

\* C13: with both lists non-empty, when the encoder raises on any skill of
\* the call, find_skill_gaps returns the whole required list.
C13_FailsClosed ==
    (GapsDone /\ call.user_skills # <<>> /\ call.required_skills # <<>> /\ SkillEncodingFails) =>
        ret.gaps = call.required_skills

\* the encoder raised on the last required skill, after the others were
\* encoded, and a required skill that a user skill covers is returned
C13_Witness ==
    /\ GapsDone
    /\ call.user_skills # <<>>
    /\ Len(call.required_skills) = 2
    /\ Len(ret.encoded) = Len(call.user_skills) + 2
    /\ SkillEncodingFails
    /\ BestSimilarity(call.required_skills[1]) >= 16640
    /\ ret.gaps = call.required_skills

-----------------------------------------------------------------------------
(* The service getters called from concurrent threads before any instance   *)
(* exists. Each thread runs one getter; a step is one of its statements.    *)

\* the number of threads calling a getter
MaxThreads == 3

Threads == 1..MaxThreads

Getters == {"get_matcher", "get_pinecone_service"}

\* the class a getter constructs
ServiceClass(getter) ==
    IF getter = "get_matcher" THEN "IntelligentMatcher" ELSE "PineconeService"

\* the module global a getter reads and assigns; 0 is None
Global(getter) ==
    IF getter = "get_matcher" THEN matcher_instance ELSE pinecone_instance

InitSingleton ==
    /\ pc = [t \in Threads |-> "call"]
    /\ call = [t \in Threads |-> [op |-> "none"]]
    /\ ret = [t \in Threads |-> [new |-> 0, instance |-> 0]]
    /\ failing = {}
    /\ EmptyStore
    /\ objects = <<>>
    /\ matcher_instance = 0
    /\ pinecone_instance = 0
    /\ scheduler = 0
    /\ scheduled = NoKeys

\* thread t enters a getter
EnterGetter(t) ==
    /\ pc[t] = "call"
    /\ \E getter \in Getters : call' = [call EXCEPT ![t] = [op |-> getter]]
    /\ pc' = [pc EXCEPT ![t] = "if"]
    /\ UNCHANGED <<ret, failing, store, vectors, services>>

\* if <global> is None:
TestInstance(t) ==
    /\ pc[t] = "if"
    /\ pc' = [pc EXCEPT ![t] = IF Global(call[t].op) = 0 THEN "new" ELSE "return"]
    /\ UNCHANGED <<call, ret, failing, store, vectors, services>>

\* the constructor call on the right-hand side of the assignment
Construct(t) ==
    /\ pc[t] = "new"
    /\ objects' = Append(objects, ServiceClass(call[t].op))
    /\ ret' = [ret EXCEPT ![t].new = Len(objects) + 1]
    /\ pc' = [pc EXCEPT ![t] = "assign"]
    /\ UNCHANGED <<call, failing, store, vectors, matcher_instance, pinecone_instance,
                   scheduler, scheduled>>

\* <global> = the constructed object
AssignInstance(t) ==
    /\ pc[t] = "assign"
    /\ IF call[t].op = "get_matcher"
       THEN matcher_instance' = ret[t].new /\ UNCHANGED pinecone_instance
       ELSE pinecone_instance' = ret[t].new /\ UNCHANGED matcher_instance
    /\ pc' = [pc EXCEPT ![t] = "return"]
    /\ UNCHANGED <<call, ret, failing, store, vectors, objects, scheduler, scheduled>>

\* return <global>
ReturnInstance(t) ==
    /\ pc[t] = "return"
    /\ ret' = [ret EXCEPT ![t].instance = Global(call[t].op)]
    /\ pc' = [pc EXCEPT ![t] = "done"]
    /\ UNCHANGED <<call, failing, store, vectors, services>>

NextSingleton ==
    \E t \in Threads :
        \/ EnterGetter(t)
        \/ TestInstance(t)
        \/ Construct(t)
        \/ AssignInstance(t)
        \/ ReturnInstance(t)

SpecSingleton == InitSingleton /\ [][NextSingleton]_vars

-----------------------------------------------------------------------------
(* Properties of the index, the getters and the notifications               *)

\* the vector of posting id in the index
JobVector(id) == vectors[VectorId("job_", id)]

\* the store-mode vectors of a posting document under each title it can have
StoreModeJobVectors(doc) ==
    {create_job_embedding([doc EXCEPT !.title = t], FALSE).val : t \in {"t1", "t2"}}

\* C16: every vector in the index is the store-mode encoding (no instruction
\* prefix) of the document that owns it.
C16_IndexHoldsStoreModeVectors ==
    \A v \in DOMAIN vectors :
        LET m == vectors[v].metadata
        IN  /\ "user_id" \in DOMAIN m =>
                  vectors[v].values = create_user_embedding(db_users[m.user_id], FALSE).val
            /\ "job_id" \in DOMAIN m =>
                  vectors[v].values \in StoreModeJobVectors(db_jobs[m.job_id])
            /\ "internship_id" \in DOMAIN m =>
                  vectors[v].values \in StoreModeJobVectors(db_internships[m.internship_id])

\* C17: find_matching_jobs returns only vectors owned by jobs, for every
\* filter_dict; find_matching_users returns only vectors owned by users; a
\* vector stored for an internship is tagged 'internship'.
C17_QueriesReturnOwnType ==
    /\ call.op = "find_matching_jobs" =>
          \A i \in 1..Len(ret.matches) : "job_id" \in DOMAIN ret.matches[i].metadata
    /\ call.op = "find_matching_users" =>
          \A i \in 1..Len(ret.matches) : "user_id" \in DOMAIN ret.matches[i].metadata
    /\ \A v \in DOMAIN vectors :
          "internship_id" \in DOMAIN vectors[v].metadata =>
              vectors[v].metadata.type = "internship"

\* C18: as long as only jobs were created (no internship), the index holds
\* the vector job_<id> exactly for the jobs in the store, and each vector is
\* the encoding of a text with the job's current description and
\* required_skills.
C18_IndexFollowsJobs ==
    (failing = {} /\ db_internships = NoKeys) =>
        \A i \in 1..Len(PostingIds) :
            LET id == PostingIds[i]
            IN  /\ VectorId("job_", id) \in DOMAIN vectors <=> id \in DOMAIN db_jobs
                /\ id \in DOMAIN db_jobs =>
                      JobVector(id).values \in StoreModeJobVectors(db_jobs[id])

\* a job whose description and required_skills were both replaced holds the
\* vector of its new text, while another job has just been deleted
C18_Witness ==
    /\ call.op = "delete_job"
    /\ ret.code = 200
    /\ db_internships = NoKeys
    /\ \E id \in DOMAIN db_jobs :
          /\ db_jobs[id].description = "d8"
          /\ db_jobs[id].required_skills = <<"Docker">>
          /\ JobVector(id).values = create_job_embedding(db_jobs[id], FALSE).val

\* the users of the index to whom a notification of the posting is sent: the
\* matches of its query vector with a score of at least 70 that the sink serves
Notified(idx, job_data, sink) ==
    LET m == find_matching_users(idx, create_job_embedding(job_data, TRUE).val, 50)
    IN  {m[i].id : i \in {k \in 1..Len(m) : m[k].score >= Pct(70) /\ sink[m[k].id] = "sent"}}

\* the job documents a step has added
NewJobs == DOMAIN db_jobs' \ DOMAIN db_jobs

RECURSIVE SumNotified(_, _)
SumNotified(ids, sink) ==
    IF ids = {} THEN 0
    ELSE LET id == CHOOSE x \in ids : TRUE
         IN  Cardinality(Notified(vectors', db_jobs'[id], sink)) + SumNotified(ids \ {id}, sink)

\* C20: whatever the sink does, create_job answers 201 with the job stored
\* and a notification sent to every matched user the sink serves; a scrape
\* run stores every posting of the feed, counts each new one, and counts the
\* notifications of every matched user the sink serves.
C20_SinkFailureContained ==
    [][ /\ call'.op = "create_job" =>
              /\ ret'.code = 201
              /\ db_jobs' = (ret'.job_id :> call'.job_data) @@ db_jobs
              /\ call'.notify_users =>
                    /\ ret'.notifications.ok
                    /\ {ret'.notifications.val.matched_users[k].user_id :
                            k \in 1..Len(ret'.notifications.val.matched_users)}
                        = Notified(vectors', call'.job_data, call'.sink)
        /\ call'.op = "scrape_jobs_task" =>
              /\ \A k \in 1..Len(call'.jobs) :
                    check_job_exists(db_jobs', call'.jobs[k].title, call'.jobs[k].company)
              /\ ret'.total_stored = Cardinality(NewJobs)
              /\ ret'.total_emails = SumNotified(NewJobs, call'.sink)
      ]_vars

\* a scrape run stored both postings of its feed although the sink raised for
\* user u1, who matches both; user u2 was notified of the first
C20_Witness ==
    /\ call.op = "scrape_jobs_task"
    /\ call.sink["u1"] = "raise"
    /\ VectorId("user_", "u1") \in DOMAIN vectors
    /\ VectorId("user_", "u2") \in DOMAIN vectors
    /\ ret.total_stored = 2
    /\ ret.total_emails = 1

\* C19: each service class is constructed at most once, and the callers of
\* one getter that have returned all hold the same instance.
C19_ConstructedOnce ==
    /\ \A getter \in Getters :
          Cardinality({i \in 1..Len(objects) : objects[i] = ServiceClass(getter)}) <= 1
    /\ \A t \in Threads, u \in Threads :
          (pc[t] = "done" /\ pc[u] = "done" /\ call[t].op = call[u].op) =>
              ret[t].instance = ret[u].instance

-----------------------------------------------------------------------------
(* Properties of the recommended action and of the estimator in the score   *)

ActionDone == pc = "done" /\ call.op = "_get_action"

\* C23: a match returned by rank_matches with exactly one skill gap and the
\* same experience level on both sides has the tier Low or Medium and an
\* action other than 'Build Skills First'.
C23_OneGapFavoursApplying ==
    RankDone =>
        \A i \in 1..Len(ret) :
            ( /\ Len(ret[i].skill_gaps) = 1
              /\ Get(call.user_data, "experience_level", "entry")
                    = Get(ret[i].job, "experience_required", "entry") ) =>
                /\ ret[i].rejection_risk \in {"Low", "Medium"}
                /\ ret[i].recommended_action # "Build Skills First"

\* C24: _get_action returns the first action of the cascade whose condition
\* holds, and each action exactly under the condition the cascade leaves it.
C24_ActionCascade ==
    ActionDone =>
        LET score == call.score
            prob == call.rejection_prob
            c1 == score >= Pct(85) /\ prob < Pct(25)
            c2 == score >= Pct(75) /\ prob < Pct(40)
            c3 == score >= Pct(65) /\ prob < Pct(55)
        IN  /\ ret \in {"Apply Now - Excellent Match!", "Strongly Consider Applying",
                         "Apply with Portfolio", "Consider After Skill Improvement",
                         "Build Skills First"}
            /\ ret = "Apply Now - Excellent Match!" <=> c1
            /\ ret = "Strongly Consider Applying" <=> (~c1 /\ c2)
            /\ ret = "Apply with Portfolio" <=> (~c1 /\ ~c2 /\ c3)
            /\ ret = "Consider After Skill Improvement" <=>
                  (~c1 /\ ~c2 /\ ~c3 /\ score >= Pct(55))
            /\ ret = "Build Skills First" <=> score < Pct(55)

\* a score of 85 with a probability of exactly 25 falls through the first
\* condition to the second
C24_Witness ==
    /\ ActionDone
    /\ call.score = Pct(85)
    /\ call.rejection_prob = Pct(25)
    /\ ret = "Strongly Consider Applying"

\* C27: with the gap count and the levels of the call, no higher match
\* score yields a higher rejection probability than the call returned.
C27_MonotoneInScore ==
    ProbDone =>
        \A higher \in EstScores :
            higher > call.match_score =>
                _calculate_rejection_probability(higher, call.skill_gap_count,
                                                 call.user_data, call.job_data) <= ret

\* the match at position i of the result lost its gap computation to the encoder
GapsDegraded(i) ==
    skill_gaps_raise(Get(call.user_data, "skills", <<>>),
                     Get(ret[i].job, "required_skills", <<>>))

\* the match at position i of the result lost its reasoning to an exception
ReasoningDegraded(i) ==
    \/ Get(call.user_data, "experience_level", "") = PyNone
    \/ Get(ret[i].job, "experience_required", "") = PyNone

\* the vector of a skill string when the encoder answers
SkillVector(skill, is_query) ==
    model_encode([Text("skill", skill) EXCEPT !.prefix = IF is_query THEN instruction ELSE ""])

\* the gaps find_skill_gaps reports when the encoder answers every text: the
\* required skills whose best similarity to a user skill is below 0.65
UndisturbedGaps(user_skills, required_skills) ==
    IF user_skills = <<>> \/ required_skills = <<>> THEN required_skills
    ELSE SelectSeq(required_skills,
                   LAMBDA req : \A i \in 1..Len(user_skills) :
                       Max(0, Dot(SkillVector(user_skills[i], TRUE), SkillVector(req, FALSE)))
                           < 16640)

\* the match record of a candidate with the given gaps
RecordWithGaps(job, score, gaps) ==
    LET prob == _calculate_rejection_probability(score, Len(gaps), call.user_data, job)
    IN  [job |-> job,
         match_score |-> round(score, 2),
         rejection_probability |-> prob,
         rejection_risk |-> _get_risk_level(prob),
         skill_gaps |-> gaps,
         reasoning |-> IF Get(call.user_data, "experience_level", "") = PyNone
                          \/ Get(job, "experience_required", "") = PyNone
                       THEN [match_score |-> round(score, 1)]
                       ELSE generate_match_reasoning(call.user_data, job, score, gaps),
         recommended_action |-> _get_action(score, prob),
         ai_model |-> "BAAI/bge-base-en-v1.5"]

\* C22: when no profile or posting embedding raises, rank_matches returns
\* every qualifying candidate (up to top_k); a candidate whose gap computation
\* raised has the record of a candidate with all its required skills as
\* gaps, a candidate whose reasoning raised carries the score-only text, and
\* every other candidate has the record it has when the encoder answers
\* every text.
C22_FailureDegradesOneCandidate ==
    (RankDone /\ ~EncoderFailsInRanking) =>
        /\ TopK(call) >= 0 => TopKPrefix
        /\ \A i \in 1..Len(ret) :
              LET job == ret[i].job
                  user_skills == Get(call.user_data, "skills", <<>>)
                  required_skills == Get(job, "required_skills", <<>>)
              IN  ret[i] = RecordWithGaps(job, Similarity(job),
                                          IF GapsDegraded(i) THEN required_skills
                                          ELSE UndisturbedGaps(user_skills, required_skills))

\* of three returned candidates the first reports all three required skills
\* as gaps because the encoder raised on "Docker", another carries the
\* score-only reasoning, and the third has neither failure
C22_Witness ==
    /\ RankDone
    /\ failing # {}
    /\ ~EncoderFailsInRanking
    /\ Len(ret) = 3
    /\ GapsDegraded(1) /\ Len(ret[1].skill_gaps) = 3
    /\ \E i \in 2..3 : ReasoningDegraded(i) /\ ~GapsDegraded(i)
                         /\ DOMAIN ret[i].reasoning = {"match_score"}
    /\ \E i \in 2..3 : ~ReasoningDegraded(i) /\ ~GapsDegraded(i)

-----------------------------------------------------------------------------
(* Scrape runs side by side: the scheduled task and the manual endpoint are *)
(* coroutines of the server's event loop and have no await between their    *)
(* first check and their last create; the Celery task runs in a worker      *)
(* process of its own.  A step is one call of the store.                    *)

\* the number of scrape runs
MaxRuns == 2

Runs == 1..MaxRuns

\* scheduler_service.py 16, jobs.py 352, tasks/scraping_tasks.py 20
ScrapeRuns == {"scrape_jobs_task", "trigger_job_scraping", "scrape_and_store_jobs"}

\* the runs that are coroutines of the server's event loop
EventLoopRuns == {"scrape_jobs_task", "trigger_job_scraping"}

\* another coroutine of the event loop is between its start and its end
LoopBusy(run) ==
    \E other \in Runs \ {run} :
        call[other].op \in EventLoopRuns /\ pc[other] \notin {"call", "done"}

\* run may take a step: a coroutine runs only while no other one does
Scheduled(run) == call[run].op \in EventLoopRuns => ~LoopBusy(run)

InitScrape ==
    /\ pc = [run \in Runs |-> "call"]
    /\ call = [run \in Runs |-> [op |-> "none"]]
    /\ ret = [run \in Runs |-> [i |-> 0, total_stored |-> 0]]
    /\ failing = {}
    /\ EmptyStore
    /\ ServicesStarted

\* a run starts with the postings its scraper returned
StartScrape(run) ==
    /\ pc[run] = "call"
    /\ \E op \in ScrapeRuns, jobs \in Feeds :
          /\ op \in EventLoopRuns => ~LoopBusy(run)
          /\ call' = [call EXCEPT ![run] = [op |-> op, jobs |-> jobs]]
    /\ ret' = [ret EXCEPT ![run] = [i |-> 1, total_stored |-> 0]]
    /\ pc' = [pc EXCEPT ![run] = "check"]
    /\ UNCHANGED <<failing, store, vectors, services>>

\* for job_data in jobs: if firebase.check_job_exists(title, company): continue
CheckJobExists(run) ==
    /\ pc[run] = "check"
    /\ Scheduled(run)
    /\ LET jobs == call[run].jobs
           i == ret[run].i
       IN  IF i > Len(jobs) THEN
                /\ pc' = [pc EXCEPT ![run] = "done"]
                /\ UNCHANGED ret
           ELSE IF check_job_exists(db_jobs, jobs[i].title, jobs[i].company) THEN
                /\ ret' = [ret EXCEPT ![run].i = i + 1]
                /\ UNCHANGED pc
           ELSE
                /\ pc' = [pc EXCEPT ![run] = "create"]
                /\ UNCHANGED ret
    /\ UNCHANGED <<call, failing, store, vectors, services>>

\* job_id = firebase.create_job(job_data), the embedding and its upsert,
\* total_stored += 1
StoreScrapedJob(run) ==
    /\ pc[run] = "create"
    /\ Scheduled(run)
    /\ Cardinality(DOMAIN db_jobs) < Len(PostingIds)
    /\ LET job_data == call[run].jobs[ret[run].i]
           job_id == NewId(db_jobs, db_internships)
       IN  /\ db_jobs' = (job_id :> (job_data @@ [is_active |-> TRUE])) @@ db_jobs
           /\ vectors' = embed_and_upsert_job(vectors, job_id, job_data,
                                              [job_id |-> job_id, title |-> job_data.title,
                                               company |-> job_data.company, type |-> "job"])
    /\ ret' = [ret EXCEPT ![run] = [i |-> @.i + 1, total_stored |-> @.total_stored + 1]]
    /\ pc' = [pc EXCEPT ![run] = "check"]
    /\ UNCHANGED <<call, failing, db_users, db_internships, db_applications, services>>

NextScrape ==
    \E run \in Runs :
        \/ StartScrape(run)
        \/ CheckJobExists(run)
        \/ StoreScrapedJob(run)

SpecScrape == InitScrape /\ [][NextScrape]_vars

-----------------------------------------------------------------------------
(* Background scheduler: services/scheduler_service.py 119-179, called one  *)
(* after the other (main.py 203 and 232, and any later caller), and the     *)
(* jobs a running scheduler fires.                                          *)

\* the most scheduler objects constructed
MaxSchedulers == 3

\* a mutant: the handle is never seen as set
scheduler_is_set_never(handle) == FALSE

\* line 123: scheduler is not None (lines 154 and 170: if scheduler)
scheduler_is_set(handle) == handle # 0

\* the scheduler objects constructed so far
Schedulers == {i \in 1..Len(objects) : objects[i] = "AsyncIOScheduler"}

\* the handle is None and no scheduler object exists, the getters of the
\* matcher and of the index have been called (main.py 165-187)
InitScheduler ==
    /\ pc = "idle"
    /\ call = [op |-> "none"]
    /\ ret = None
    /\ failing = {}
    /\ EmptyStore
    /\ objects = <<"IntelligentMatcher", "PineconeService">>
    /\ matcher_instance = 1
    /\ pinecone_instance = 2
    /\ scheduler = 0
    /\ scheduled = NoKeys

\* start_scheduler, lines 119-148
StartScheduler ==
    /\ call' = [op |-> "start_scheduler"]
    /\ IF scheduler_is_set(scheduler) THEN
            /\ ret' = Ok(scheduler)
            /\ UNCHANGED <<objects, scheduler, scheduled>>
       ELSE
            /\ Cardinality(Schedulers) < MaxSchedulers
            /\ objects' = Append(objects, "AsyncIOScheduler")
            /\ scheduler' = Len(objects) + 1
            /\ scheduled' = ((Len(objects) + 1) :> {"auto_scrape_jobs"}) @@ scheduled
            /\ ret' = Ok(Len(objects) + 1)
    /\ UNCHANGED <<pc, failing, store, vectors, matcher_instance, pinecone_instance>>

\* stop_scheduler, lines 151-158
StopScheduler ==
    /\ call' = [op |-> "stop_scheduler"]
    /\ IF scheduler_is_set(scheduler) THEN
            /\ scheduled' = [o \in DOMAIN scheduled \ {scheduler} |-> scheduled[o]]
            /\ scheduler' = 0
       ELSE UNCHANGED <<scheduler, scheduled>>
    /\ ret' = None
    /\ UNCHANGED <<pc, failing, store, vectors, matcher_instance, pinecone_instance, objects>>

\* get_scheduler, lines 161-164
GetScheduler ==
    /\ call' = [op |-> "get_scheduler"]
    /\ ret' = IF scheduler = 0 THEN None ELSE Ok(scheduler)
    /\ UNCHANGED <<pc, failing, store, vectors, services>>

\* trigger_immediate_scrape, lines 167-179: add_job with replace_existing
TriggerImmediateScrape ==
    /\ call' = [op |-> "trigger_immediate_scrape"]
    /\ IF scheduler_is_set(scheduler) THEN
            /\ scheduled' = [scheduled EXCEPT ![scheduler] = @ \cup {"immediate_scrape"}]
            /\ ret' = Ok(TRUE)
       ELSE
            /\ ret' = Ok(FALSE)
            /\ UNCHANGED scheduled
    /\ UNCHANGED <<pc, failing, store, vectors, matcher_instance, pinecone_instance,
                   objects, scheduler>>

\* scrape_jobs_task, lines 64-101, from the i-th posting of one keyword's
\* results on: the jobs and the vectors it leaves.  It has no await, so a
\* run is one step of the event loop.
RECURSIVE scrape_jobs_task(_, _, _, _)
scrape_jobs_task(jobs_db, vecs, jobs, i) ==
    IF i > Len(jobs) THEN [db_jobs |-> jobs_db, vectors |-> vecs]
    ELSE IF check_job_exists(jobs_db, jobs[i].title, jobs[i].company) THEN
        scrape_jobs_task(jobs_db, vecs, jobs, i + 1)
    ELSE
        LET job_data == jobs[i]
            job_id == NewId(jobs_db, db_internships)
        IN  scrape_jobs_task((job_id :> (job_data @@ [is_active |-> TRUE])) @@ jobs_db,
                             embed_and_upsert_job(vecs, job_id, job_data,
                                                  [job_id |-> job_id, title |-> job_data.title,
                                                   company |-> job_data.company, type |-> "job"]),
                             jobs, i + 1)

\* the running scheduler fires one of its jobs (lines 129-136 and 171-175:
\* both run scrape_jobs_task); the job added without a trigger runs once
RunScheduledJob ==
    /\ scheduler_is_set(scheduler)
    /\ \E id \in scheduled[scheduler], jobs \in Feeds :
          /\ Cardinality(DOMAIN db_jobs) + Len(jobs) <= Len(PostingIds)
          /\ call' = [op |-> "scrape_jobs_task", id |-> id, jobs |-> jobs]
          /\ LET done == scrape_jobs_task(db_jobs, vectors, jobs, 1)
             IN  /\ db_jobs' = done.db_jobs
                 /\ vectors' = done.vectors
          /\ scheduled' = [scheduled EXCEPT ![scheduler] = @ \ ({id} \cap {"immediate_scrape"})]
    /\ ret' = None
    /\ UNCHANGED <<pc, failing, db_users, db_internships, db_applications,
                   matcher_instance, pinecone_instance, objects, scheduler>>

NextScheduler ==
    \/ StartScheduler
    \/ StopScheduler
    \/ GetScheduler
    \/ TriggerImmediateScrape
    \/ RunScheduledJob

SpecScheduler == InitScheduler /\ [][NextScheduler]_vars

-----------------------------------------------------------------------------
(* The index adapter called directly with ids and vectors of the caller's   *)
(* choice: services/pinecone_service.py 56-148 and 193-290.                 *)

\* the most vectors in the index
MaxVectors == 2

\* ids handed to the adapter, with and without a prefix inside
AdapterIds == {"p1", "7", "job_7", "user_7"}

\* unit vectors handed to the adapter
AdapterVectors == {<<160, 0>>, <<96, 128>>}

InitAdapter ==
    /\ pc = "idle"
    /\ call = [op |-> "none"]
    /\ ret = [code |-> 0]
    /\ failing = {}
    /\ EmptyStore
    /\ ServicesStarted

\* upsert_job_embedding(job_id, embedding, metadata), lines 103-148, with the
\* metadata its callers pass (jobs.py 101-110)
UpsertJobEmbedding ==
    /\ \E job_id \in AdapterIds, embedding \in AdapterVectors :
          /\ Cardinality(DOMAIN vectors \cup {VectorId("job_", job_id)}) <= MaxVectors
          /\ call' = [op |-> "upsert_job_embedding", id |-> job_id, embedding |-> embedding]
          /\ vectors' = upsert_job_embedding(vectors, job_id, embedding, [job_id |-> job_id])
    /\ ret' = [code |-> 0]
    /\ UNCHANGED <<pc, failing, store, services>>

\* upsert_user_embedding(user_id, embedding, metadata), lines 56-101, with
\* the metadata its callers pass (users.py 130-139)
UpsertUserEmbedding ==
    /\ \E user_id \in AdapterIds, embedding \in AdapterVectors :
          /\ Cardinality(DOMAIN vectors \cup {VectorId("user_", user_id)}) <= MaxVectors
          /\ call' = [op |-> "upsert_user_embedding", id |-> user_id, embedding |-> embedding]
          /\ vectors' = upsert_user_embedding(vectors, user_id, embedding, [user_id |-> user_id])
    /\ ret' = [code |-> 0]
    /\ UNCHANGED <<pc, failing, store, services>>

\* find_matching_jobs(user_embedding, top_k), lines 193-246
AdapterFindMatchingJobs ==
    /\ \E user_embedding \in AdapterVectors :
          /\ call' = [op |-> "find_matching_jobs", embedding |-> user_embedding]
          /\ ret' = [code |-> 0,
                     matches |-> find_matching_jobs(vectors, user_embedding, MaxVectors, NoKeys)]
    /\ UNCHANGED <<pc, failing, store, vectors, services>>

\* find_matching_users(job_embedding, top_k), lines 248-290
AdapterFindMatchingUsers ==
    /\ \E job_embedding \in AdapterVectors :
          /\ call' = [op |-> "find_matching_users", embedding |-> job_embedding]
          /\ ret' = [code |-> 0,
                     matches |-> find_matching_users(vectors, job_embedding, MaxVectors)]
    /\ UNCHANGED <<pc, failing, store, vectors, services>>

NextAdapter ==
    \/ UpsertJobEmbedding
    \/ UpsertUserEmbedding
    \/ AdapterFindMatchingJobs
    \/ AdapterFindMatchingUsers

SpecAdapter == InitAdapter /\ [][NextAdapter]_vars

-----------------------------------------------------------------------------
(* Properties of the endpoints under failures of the store and the index    *)

\* the matches the index holds for the query of the last search
SearchMatches ==
    find_matching_jobs(vectors,
                       create_user_embedding([skills |-> Split(call.query),
                                              experience_level |-> "any",
                                              interests |-> call.query,
                                              career_goals |-> call.query], TRUE).val,
                       call.limit * 2, [type |-> "job"])

\* C21: a search during which the index does not answer returns 200 with the
\* active jobs of the store, and its response differs from the response of
\* the same search when the index answers with zero matches.
C21_OutageToldApart ==
    (call.op = "search_jobs" /\ ~call.index_answers) =>
        /\ ret.code = 200
        /\ ret.jobs = get_all_jobs(100)
        /\ SearchMatches = <<>> =>
              ret # search_jobs(vectors, call.query, call.limit, TRUE)

\* C25: after delete_user answered 200 the user is not in the store and the
\* index holds no vector user_<id>.
C25_DeletedUserIsGone ==
    (call.op = "delete_user" /\ ret.code = 200) =>
        /\ ~get_user(call.user_id).ok
        /\ VectorId("user_", call.user_id) \notin DOMAIN vectors

\* C26: a delete_job that answers 500 leaves the job documents and the
\* vectors of the index as they were.
C26_FailedDeleteChangesNothing ==
    [][ (call'.op = "delete_job" /\ ret'.code = 500) =>
            (db_jobs' = db_jobs /\ vectors' = vectors) ]_vars

\* C28: no two job documents of the store have the same title and company.
C28_NoDuplicateScrapedJobs ==
    \A j \in DOMAIN db_jobs, k \in DOMAIN db_jobs :
        (db_jobs[j].title = db_jobs[k].title /\ db_jobs[j].company = db_jobs[k].company)
            => j = k

\* C29: at most one scheduler runs, and it is the one the handle names; a
\* start_scheduler with the handle set returns the handle and constructs and
\* starts nothing, one with the handle None constructs and starts a new
\* scheduler; stop_scheduler leaves the handle None and no scheduler
\* running; trigger_immediate_scrape with the handle None returns False and
\* schedules nothing.
C29_OneScheduler ==
    /\ [](/\ Cardinality(DOMAIN scheduled) <= 1
          /\ DOMAIN scheduled = (IF scheduler = 0 THEN {} ELSE {scheduler}))
    /\ [][
            /\ (call'.op = "start_scheduler" /\ scheduler # 0) =>
                 /\ ret' = Ok(scheduler)
                 /\ UNCHANGED <<objects, scheduler, scheduled>>
            /\ (call'.op = "start_scheduler" /\ scheduler = 0) =>
                 /\ scheduler' \notin Schedulers
                 /\ scheduler' \in DOMAIN scheduled'
                 /\ ret' = Ok(scheduler')
            /\ call'.op = "stop_scheduler" =>
                 /\ scheduler' = 0
                 /\ scheduled' = NoKeys
            /\ (call'.op = "trigger_immediate_scrape" /\ scheduler = 0) =>
                 /\ ret' = Ok(FALSE)
                 /\ UNCHANGED <<objects, scheduler, scheduled>>
          ]_vars

\* after a stop, start_scheduler has constructed and started a second
\* scheduler, and the first one is not running
C29_Witness ==
    /\ call.op = "start_scheduler"
    /\ Cardinality(Schedulers) = 2
    /\ ret = Ok(scheduler)
    /\ DOMAIN scheduled = {Len(objects)}

\* C30: every match find_matching_jobs reports carries the job id its vector
\* was stored with, and every match find_matching_users reports carries the
\* user id its vector was stored with, whatever the id holds.
C30_IdRoundTrip ==
    /\ call.op = "find_matching_jobs" =>
          \A i \in 1..Len(ret.matches) : ret.matches[i].id = ret.matches[i].metadata.job_id
    /\ call.op = "find_matching_users" =>
          \A i \in 1..Len(ret.matches) : ret.matches[i].id = ret.matches[i].metadata.user_id

====
